---- MODULE Spec2Model ----
(***************************************************************************)
(* Off-chain channel engine of go-perun: the two-party update protocol     *)
(* (client/update.go) on top of the channel machine, and the virtual-      *)
(* channel funding and settlement sub-protocol at the intermediary         *)
(* (client/virtual_channel*.go).                                           *)
(*                                                                         *)
(* Participants of a two-party channel are the indices 0 and 1, as in the  *)
(* Go code (channel.Index).  Balances are functions from index to integer  *)
(* for a single asset.                                                     *)
(***************************************************************************)
EXTENDS Integers, Sequences, FiniteSets, TLC

\* ------------------------------------------------------------------ bounds
\* Number of Update/UpdateBy calls the two peers make in a run, together.
MaxCalls == 2

\* ------------------------------------------------------------ basic values
Parts == {0, 1}

Bal(a, b) == (0 :> a) @@ (1 :> b)

\* Balance of each participant when the ledger channel is opened (scenario 1).
LedgerBal == 10

NoState == [version |-> -1, bals |-> Bal(0, 0), isFinal |-> FALSE, locked |-> {}]

InitState == [version |-> 0, bals |-> Bal(LedgerBal, LedgerBal), isFinal |-> FALSE, locked |-> {}]

RECURSIVE SumLocked(_)
SumLocked(L) ==
    IF L = {} THEN 0
    ELSE LET x == CHOOSE y \in L : TRUE IN x.sum + SumLocked(L \ {x})

\* Allocation.Sum: balances of all participants plus all locked sub-allocations.
AllocSum(s) == s.bals[0] + s.bals[1] + SumLocked(s.locked)

\* Allocation.Valid: no negative balance.
AllocValid(s) == s.bals[0] >= 0 /\ s.bals[1] >= 0

\* A signature of participant i over state s; wallet verification succeeds
\* exactly for the signer and the signed state.
Signature(i, s) == [signer |-> i, st |-> s]
Verify(i, s, sig) == sig.signer = i /\ sig.st = s

\* ------------------------------------------------------- channel machine
NewMachine(s) ==
    [phase |-> "Acting", cur |-> s, curSigs |-> Parts, staged |-> NoState, sigs |-> {}]

\* A weaker transition check that accepts any higher version.
ValidTransitionAnyVersion(m, s, actor) ==
    /\ m.phase = "Acting"
    /\ actor \in Parts
    /\ ~m.cur.isFinal
    /\ s.version > m.cur.version
    /\ AllocValid(s)
    /\ AllocSum(s) = AllocSum(m.cur)

\* A weaker transition check that does not compare the sums of the allocations.
ValidTransitionNoSum(m, s, actor) ==
    /\ m.phase = "Acting"
    /\ actor \in Parts
    /\ ~m.cur.isFinal
    /\ s.version = m.cur.version + 1
    /\ AllocValid(s)

\* machine.ValidTransition: the checks of a staged update.
ValidTransition(m, s, actor) ==
    /\ m.phase = "Acting"
    /\ actor \in Parts
    /\ ~m.cur.isFinal
    /\ s.version = m.cur.version + 1
    /\ AllocValid(s)
    /\ AllocSum(s) = AllocSum(m.cur)

\* machine.Update: stage s (phase Acting -> Signing).
MachineUpdate(m, s, actor) ==
    IF ValidTransition(m, s, actor)
    THEN [ok |-> TRUE, m |-> [m EXCEPT !.phase = "Signing", !.staged = s, !.sigs = {}]]
    ELSE [ok |-> FALSE, m |-> m]

\* machine.CheckUpdate: verify an incoming update without staging it.
CheckUpdate(m, s, actor, sig, sigIdx) ==
    ValidTransition(m, s, actor) /\ Verify(sigIdx, s, sig)

\* machine.Sig: sign the staged state with the own key.
MachineSig(m, idx) ==
    [sig |-> Signature(idx, m.staged), m |-> [m EXCEPT !.sigs = @ \cup {idx}]]

\* machine.AddSig: add a peer's signature on the staged state.
MachineAddSig(m, idx, sig) ==
    IF m.phase = "Signing" /\ Verify(idx, m.staged, sig)
    THEN [ok |-> TRUE, m |-> [m EXCEPT !.sigs = @ \cup {idx}]]
    ELSE [ok |-> FALSE, m |-> m]

\* machine.EnableUpdate / EnableFinal: promote the staged state.
MachineEnable(m, final) ==
    IF m.phase = "Signing" /\ m.sigs = Parts /\ m.staged.isFinal = final
    THEN [ok |-> TRUE,
          m |-> [m EXCEPT !.phase = IF final THEN "Final" ELSE "Acting",
                          !.cur = m.staged, !.curSigs = m.sigs,
                          !.staged = NoState, !.sigs = {}]]
    ELSE [ok |-> FALSE, m |-> m]

\* machine.DiscardUpdate: drop the staged state (no-op when nothing is staged).
MachineDiscardUpdate(m) ==
    IF m.phase = "Signing"
    THEN [m EXCEPT !.phase = "Acting", !.staged = NoState, !.sigs = {}]
    ELSE m

\* ------------------------------------------------ two-party update protocol
VARIABLES
    mach,        \* mach[p]: the channel machine of peer p
    mtx,         \* mtx[p]: holder of p's machine mutex: "free", "update" or "req"
    pc,          \* pc[p]: "idle", or "waiting" inside update for the peer's response
    calls,       \* calls[p]: number of Update/UpdateBy calls p has made so far
    ret,         \* ret[p]: result of p's last Update/UpdateBy call
    before,      \* before[p]: p's current state when its last call locked the machine
    inbox,       \* inbox[p]: update requests sent to p, in order
    resp,        \* resp[p]: accept/reject messages in flight to p
    hpc,         \* hpc[p]: "idle", or "handling" while the user's HandleUpdate runs
    hreq,        \* hreq[p]: the request the running handler was given
    responders,  \* responders[p]: responders a handler kept to answer later
    promoted,    \* promoted[p]: the states p's machine promoted, in order
    rolledBack,  \* discards of a staged state whose signature had left the peer
    mutations    \* machine mutations so far: who mutated, and who held the mutex

varsU == <<mach, mtx, pc, calls, ret, before, inbox, resp, hpc, hreq, responders,
           promoted, rolledBack, mutations>>

VARIABLES
    pmach,       \* pmach[c]: the proposer's machine of parent channel c
    imach,       \* imach[c]: Ingrid's machine of parent channel c
    ppc,         \* ppc[c]: where the proposer of parent c stands
    pvirt,       \* pvirt[c]: the virtual channel's state held by the proposer
    proposals,       \* proposals[c]: the proposal in flight to Ingrid over parent c
    vresp,       \* vresp[c]: accept/reject messages in flight to the proposer
    ipc,         \* ipc[c]: "idle", or "await" while Ingrid's handler is in Await
    hprop,       \* hprop[c]: the proposal Ingrid's handler for parent c holds
    called,      \* called[c]: the called flag of that handler's responder
    match,       \* match[c]: the handler's match channel holds a token
    entries,     \* entries[k]: handlers registered in the funding/settlement watcher
    copy,        \* Ingrid's copy of the virtual channel
    panicked,    \* Ingrid's process has panicked
    funded,      \* funded[c]: virtual state and index map of c's funding proposal
    acceptCalls, \* calls of Accept on a responder: parent, kind, matched or not
    accepted     \* <<kind, c>>: Ingrid's accept of the proposal took effect

varsV == <<pmach, imach, ppc, pvirt, proposals, vresp, ipc, hprop, called, match,
           entries, copy, panicked, funded, acceptCalls, accepted>>

VARIABLES
    lmtx,        \* lmtx[m]: the task holding machine mutex m, or "free"
    lpc,         \* lpc[t]: where task t stands in acquiring its mutexes
    lheld,       \* lheld[t]: how many of its mutexes task t holds
    lctx         \* lctx[t]: the context of task t has expired or was cancelled

varsL == <<lmtx, lpc, lheld, lctx>>

VARIABLES
    rmach,       \* the machine of the channel the responder belongs to
    rreq,        \* the update request the responder was created for
    rcalled,     \* the responder's called flag
    rpc,         \* rpc[c]: where caller c stands in its call on the responder
    rorder,      \* the callers in the order in which they tested the flag
    rout,        \* the messages sent to the peer, with the caller that sent them
    rmutBy       \* the callers whose call changed the machine

varsR == <<rmach, rreq, rcalled, rpc, rorder, rout, rmutBy>>

VARIABLES
    wlocal,      \* the version of the watched channel's current state
    wphase,      \* the phase of the watched channel's machine
    chainV,      \* the version registered on chain, -1 when none is
    concluded,   \* the channel is concluded on chain
    wlog,        \* events emitted by the chain, not yet delivered
    wslot,       \* the event queued in the watcher's subscription
    wpc,         \* where Watch stands: "next", "registering", "panicked", "returned"
    whist        \* the RegisteredEvents Watch has compared, in order

varsW == <<wlocal, wphase, chainV, concluded, wlog, wslot, wpc, whist>>

VARIABLES
    backends,    \* the chain IDs a backend is registered for (Adjudicator.backends)
    areq,        \* the request of the adjudicator operation, NoAdjReq before it
    aset,        \* the backend set gathered for the request (backendSet.m)
    acalls,      \* the calls of Adjudicator.call that returned, as records
    aerr,        \* what the operation returned: "running", "nil" or the error
    epc,         \* epc[b]: where ensureConcludedBackend stands for backend b
    eseen,       \* eseen[b]: the phase of the event on which it returned nil
    onchain      \* onchain[b]: the phase of the channel on the chain of backend b

varsA == <<backends, areq, aset, acalls, aerr, epc, eseen, onchain>>

VARIABLES
    ffunders,    \* ffunders[a]: the funder registered for asset a, or "none"
    freq,        \* the assets of the funding request, <<>> before Fund is called
    flist,       \* the distinct funders of the request, as fundersForAssets lists them
    fgo,         \* fgo[i]: the funder the i-th routine called and what it returned
    fret         \* what Fund returned: "none" before, "running", "nil" or the error

varsF == <<ffunders, freq, flist, fgo, fret>>

VARIABLES
    sentInvalid  \* sentInvalid[p]: the invalid update requests a peer sent to p

varsD == <<sentInvalid>>

VARIABLES
    ekind,       \* what is encoded and decoded: "none" before, "bytes" or "address"
    ein,         \* the value given to the encoder
    etarget,     \* the value the decode target holds before decoding
    eenc,        \* what the encoder returned
    eout         \* the value the decode target holds after decoding

varsE == <<ekind, ein, etarget, eenc, eout>>

VARIABLES
    swState,     \* swState[i]: the state waiter i passes to Await
    swEntries,   \* the ids of the entries the state watcher holds
    swDone,      \* swDone[i]: the tokens in the match channel of waiter i
    swPc,        \* swPc[i]: "idle", "select", "deregister" or "returned"
    swRet,       \* swRet[i]: what Await returned to i: "none", "nil" or "ctx"
    swPairs,     \* the pairs of ids for which register found the condition true
    swEvals      \* swEvals[pr]: how often the condition was evaluated on pair pr

varsS == <<swState, swEntries, swDone, swPc, swRet, swPairs, swEvals>>

VARIABLES
    bnext,       \* the events in the channel r.next of the backend subscription
    bpc,         \* where updateNext stands: "select", "process" or "closed"
    bcur,        \* the event processNext took out of r.next, or NoChainEvent
    bnew,        \* the chain event processNext is called with
    blast,       \* the drained and the new event of the last processNext that returned nil
    bcount,      \* the number of chain events that have arrived
    bother,      \* the channel next of another backend's subscription is closed
    bgot,        \* AdjudicatorSub.Next has returned a Concluded event
    bnil         \* AdjudicatorSub.Next has returned nil

varsB == <<bnext, bpc, bcur, bnew, blast, bcount, bother, bgot, bnil>>

VARIABLES
    gmtx,        \* gmtx[ch]: who holds the machine mutex of ch: "free", "register", "other"
    gphase,      \* gphase[ch]: the phase of the machine of ch
    gpresent,    \* the channels the client's registry holds
    gctx,        \* the context of Register has ended
    gpc,         \* where Register stands
    gidx,        \* the position of the running traversal in the channel tree
    glist,       \* the mutexList l of tryLockRecursive
    gacq,        \* the mutexes Register has acquired
    gunl,        \* the mutexes the deferred l.Unlock() has unlocked, in order
    gset,        \* the channels for which SetRegistering returned nil
    gret,        \* what Register returned: "none" before, "nil" or the error
    gcalled,     \* the channel Register was called on
    gsubs        \* the sub-channels whose signed states the adjudicator was called with

varsG == <<gmtx, gphase, gpresent, gctx, gpc, gidx, glist, gacq, gunl, gset, gret,
           gcalled, gsubs>>

VARIABLES
    nreq,        \* the request of waitConcludedSecondary, or NoWaitReq
    npc,         \* where waitConcludedSecondary stands
    ni,          \* the loop variable i of waitConcludedForNBlocks
    nheaders,    \* the new block headers the loop has received
    nconcluded,  \* the events in the channel the loop reads (concluded)
    nemitted,    \* the number of events the chain has emitted
    nret         \* what waitConcludedSecondary returned

varsN == <<nreq, npc, ni, nheaders, nconcluded, nemitted, nret>>

VARIABLES
    tmtx,        \* tmtx[ch]: who holds the machine mutex of ch: "free", "settle", "register"
    tphase,      \* tphase[ch]: the phase of the machine of ch
    tpc,         \* tpc[t]: where Settle ("settle") and Register ("register") stand
    tkind,       \* the type of the channel Settle was called on
    tlocked,     \* hasLockedFunds() of the channel Settle was called on
    tbefore,     \* the phase of that channel when Settle had locked its machine
    tret         \* tret[t]: what the call returned: "none" before, "nil" or the error

varsT == <<tmtx, tphase, tpc, tkind, tlocked, tbefore, tret>>

\* The variables of the components modelled on their own.
varsZ == <<varsS, varsB, varsG, varsN, varsT>>

\* The variables of the protocols and mediators above.
varsOld == <<varsU, varsV, varsL, varsR, varsW, varsA, varsF, varsD, varsE>>

\* The variables of the on-chain mediators, of the faulty peer, of the
\* serializer and of the components modelled on their own.
varsY == <<varsA, varsF, varsD, varsE, varsZ>>

\* The variables outside the update protocol and the virtual-channel protocol.
varsX == <<varsL, varsR, varsW, varsY>>

vars == <<varsU, varsV, varsX>>

Peer(p) == 1 - p

Request(s, actor, sig) == [state |-> s, actor |-> actor, sig |-> sig]
NoReq == Request(NoState, 0, Signature(0, NoState))

NoSig == Signature(0, NoState)
AccMsg(v, sig) == [type |-> "acc", version |-> v, sig |-> sig, reason |-> "none"]
RejMsg(v, reason) == [type |-> "rej", version |-> v, sig |-> NoSig, reason |-> reason]

Reasons == {"declined"}

\* What a call of Update/UpdateBy returned: the error, the reason a peer gave,
\* whether the call ended because its context ended, and the machines of the
\* caller and of its peer as they were when the call returned.
Result(err, reason, ctx, m, peerm) ==
    [err |-> err, reason |-> reason, ctx |-> ctx, after |-> m, peer |-> peerm]
NoResult == [err |-> "none", reason |-> "none", ctx |-> FALSE,
             after |-> NewMachine(NoState), peer |-> NewMachine(NoState)]

\* A sub-allocation some update function may try to add in a two-party update.
ForeignSubAlloc == [id |-> "X", sum |-> 0, indexMap |-> <<0, 1>>]

\* The update functions a user passes to UpdateBy: the transfers of scenarios 1
\* and 2, a final state, and one that tampers with the sub-allocations.
UpdateFns ==
    { [bals |-> Bal(7, 13),  isFinal |-> FALSE, locked |-> {}],
      [bals |-> Bal(13, 7),  isFinal |-> FALSE, locked |-> {}],
      [bals |-> Bal(13, 7),  isFinal |-> TRUE,  locked |-> {}],
      [bals |-> Bal(-1, 21), isFinal |-> FALSE, locked |-> {}],
      [bals |-> Bal(7, 13),  isFinal |-> FALSE, locked |-> {ForeignSubAlloc}] }

ApplyFn(s, u) == [s EXCEPT !.bals = u.bals, !.isFinal = u.isFinal, !.locked = u.locked]

InitU ==
    /\ mach = [p \in Parts |-> NewMachine(InitState)]
    /\ mtx = [p \in Parts |-> "free"]
    /\ pc = [p \in Parts |-> "idle"]
    /\ calls = [p \in Parts |-> 0]
    /\ ret = [p \in Parts |-> NoResult]
    /\ before = [p \in Parts |-> InitState]
    /\ inbox = [p \in Parts |-> <<>>]
    /\ resp = [p \in Parts |-> {}]
    /\ hpc = [p \in Parts |-> "idle"]
    /\ hreq = [p \in Parts |-> NoReq]
    /\ responders = [p \in Parts |-> {}]
    /\ promoted = [p \in Parts |-> <<>>]
    /\ rolledBack = {}
    /\ mutations = {}

\* channel.SubAllocsAssertEqual
SubAllocsAssertEqual(a, b) == a = b

\* A weaker check that does not compare the sub-allocations.
validTwoPartyUpdateActorOnly(m, s, actor, sigIdx) == actor = sigIdx

\* validTwoPartyUpdate: actor and signer coincide, sub-allocations unchanged.
validTwoPartyUpdate(m, s, actor, sigIdx) ==
    /\ actor = sigIdx
    /\ SubAllocsAssertEqual(m.cur.locked, s.locked)

\* validTwoPartyUpdateState
validTwoPartyUpdateState(m, idx, next) == validTwoPartyUpdate(m, next, idx, idx)

\* enableNotifyUpdate: EnableFinal for a final staged state, else EnableUpdate.
enableNotifyUpdate(m) == MachineEnable(m, m.staged.isFinal)

\* Channel.update up to the wait for the response: stage, sign, send MsgUpdate.
\* sendOk is the outcome of conn.Send.  The result names the machine, the error
\* returned (or "wait" when the call goes on to wait), and the message sent.
updateStart(m, idx, next, sendOk) ==
    LET u == MachineUpdate(m, next, idx)
        s == MachineSig(u.m, idx)
    IN  IF ~u.ok
        THEN [m |-> m, err |-> "updating machine", out |-> <<>>]
        ELSE IF ~sendOk
        THEN [m |-> MachineDiscardUpdate(s.m), err |-> "sending update", out |-> <<>>]
        ELSE [m |-> s.m, err |-> "wait", out |-> <<Request(next, idx, s.sig)>>]

\* Channel.update after resRecv.Next returned the response res of peer pidx.
updateFinish(m, pidx, res) ==
    LET a == MachineAddSig(m, pidx, res.sig)
        e == enableNotifyUpdate(a.m)
    IN  IF res.type = "rej"
        THEN [m |-> MachineDiscardUpdate(m), err |-> "PeerRejected",
              reason |-> res.reason, rolled |-> FALSE]
        ELSE IF ~a.ok
        THEN [m |-> MachineDiscardUpdate(a.m), err |-> "adding peer signature",
              reason |-> "none", rolled |-> TRUE]
        ELSE IF ~e.ok
        THEN [m |-> MachineDiscardUpdate(e.m), err |-> "enabling update",
              reason |-> "none", rolled |-> TRUE]
        ELSE [m |-> e.m, err |-> "nil", reason |-> "none", rolled |-> FALSE]

\* Channel.update when resRecv.Next ends with a context error.
updateTimeout(m) ==
    [m |-> MachineDiscardUpdate(m), err |-> "RequestTimedOut", reason |-> "none",
     rolled |-> TRUE]

\* handleUpdateAcc of peer idx for request req of peer pidx.
handleUpdateAcc(m, idx, pidx, req, sendOk) ==
    LET u == MachineUpdate(m, req.state, req.actor)
        a == MachineAddSig(u.m, pidx, req.sig)
        s == MachineSig(a.m, idx)
        e == enableNotifyUpdate(s.m)
    IN  IF ~u.ok
        THEN [m |-> m, err |-> "updating machine", out |-> {}, rolled |-> FALSE]
        ELSE IF ~a.ok
        THEN [m |-> MachineDiscardUpdate(a.m), err |-> "adding peer signature",
              out |-> {}, rolled |-> FALSE]
        ELSE IF ~sendOk
        THEN [m |-> MachineDiscardUpdate(s.m), err |-> "sending accept message",
              out |-> {}, rolled |-> FALSE]
        ELSE IF ~e.ok
        THEN [m |-> MachineDiscardUpdate(e.m), err |-> "enabling update",
              out |-> {AccMsg(req.state.version, s.sig)}, rolled |-> TRUE]
        ELSE [m |-> e.m, err |-> "nil",
              out |-> {AccMsg(req.state.version, s.sig)}, rolled |-> FALSE]

\* handleUpdateRej: send the reject message.
handleUpdateRej(req, reason, sendOk) ==
    IF sendOk THEN {RejMsg(req.state.version, reason)} ELSE {}

\* The states promoted by going from machine m to machine n.
Promotion(m, n) == IF n.cur # m.cur THEN <<n.cur>> ELSE <<>>

Mutation(p, task, holder) == [ch |-> p, task |-> task, locked |-> holder = task]

\* Update/UpdateBy whose context ends while TryLockCtx waits for the mutex.
UpdateLockTimeout(p) ==
    /\ pc[p] = "idle" /\ calls[0] + calls[1] < MaxCalls
    /\ mtx[p] # "free"
    /\ calls' = [calls EXCEPT ![p] = @ + 1]
    /\ ret' = [ret EXCEPT ![p] = Result("locking machine mutex in time", "none", TRUE,
                                        mach[p], mach[Peer(p)])]
    /\ before' = [before EXCEPT ![p] = mach[p].cur]
    /\ UNCHANGED <<mach, mtx, pc, inbox, resp, hpc, hreq, responders, promoted,
                   rolledBack, mutations>>
    /\ UNCHANGED <<varsV, varsX>>

\* The part of Update and UpdateBy that follows the lock: validate, then update.
UpdateLocked(p, next, sendOk) ==
    LET o == IF validTwoPartyUpdateState(mach[p], p, next)
             THEN updateStart(mach[p], p, next, sendOk)
             ELSE [m |-> mach[p], err |-> "sub-allocation changed", out |-> <<>>]
    IN  /\ pc[p] = "idle" /\ calls[0] + calls[1] < MaxCalls
        /\ mtx[p] = "free"
        /\ calls' = [calls EXCEPT ![p] = @ + 1]
        /\ before' = [before EXCEPT ![p] = mach[p].cur]
        /\ mach' = [mach EXCEPT ![p] = o.m]
        /\ inbox' = [inbox EXCEPT ![Peer(p)] = @ \o o.out]
        /\ IF o.err = "wait"
           THEN /\ pc' = [pc EXCEPT ![p] = "waiting"]
                /\ mtx' = [mtx EXCEPT ![p] = "update"]
                /\ ret' = [ret EXCEPT ![p] = NoResult]
           ELSE /\ ret' = [ret EXCEPT ![p] = Result(o.err, "none", FALSE, o.m, mach[Peer(p)])]
                /\ UNCHANGED <<pc, mtx>>
        /\ mutations' = mutations \cup
              (IF o.err # "sub-allocation changed" THEN {Mutation(p, "update", "update")} ELSE {})
        /\ UNCHANGED <<resp, hpc, hreq, responders, promoted, rolledBack>>
        /\ UNCHANGED <<varsV, varsX>>

\* The states a caller passes to Update: a transfer at the next version, and the
\* same transfer with the version raised once too often.
UpdateStates(cur) ==
    { [cur EXCEPT !.version = @ + dv, !.bals = Bal(7, 13)] : dv \in {1, 2} }

\* Channel.Update(ctx, next) with a state the caller built: the current state
\* with balances moved, at the next version or (a caller's mistake) one further.
Update(p) ==
    \E next \in UpdateStates(mach[p].cur), sendOk \in BOOLEAN :
        UpdateLocked(p, next, sendOk)

\* Channel.UpdateBy(ctx, update): clone the current state, apply, Version++.
UpdateBy(p) ==
    \E u \in UpdateFns, sendOk \in BOOLEAN :
        UpdateLocked(p, [ApplyFn(mach[p].cur, u) EXCEPT !.version = @ + 1], sendOk)

\* The proposer ends its call with updateFinish or updateTimeout.
UpdateReturn(p, o) ==
    /\ mach' = [mach EXCEPT ![p] = o.m]
    /\ ret' = [ret EXCEPT ![p] = Result(o.err, o.reason, o.err = "RequestTimedOut",
                                        o.m, mach[Peer(p)])]
    /\ pc' = [pc EXCEPT ![p] = "idle"]
    /\ mtx' = [mtx EXCEPT ![p] = "free"]
    /\ promoted' = [promoted EXCEPT ![p] = @ \o Promotion(mach[p], o.m)]
    /\ rolledBack' = rolledBack \cup
          (IF o.rolled THEN {[ch |-> p, side |-> "proposer"]} ELSE {})
    /\ mutations' = mutations \cup {Mutation(p, "update", mtx[p])}

\* resRecv.Next returns a response whose version is the request's version.
UpdateRecv(p) ==
    /\ pc[p] = "waiting"
    /\ \E res \in resp[p] :
        /\ res.version = mach[p].staged.version
        /\ resp' = [resp EXCEPT ![p] = @ \ {res}]
        /\ UpdateReturn(p, updateFinish(mach[p], Peer(p), res))
    /\ UNCHANGED <<calls, before, inbox, hpc, hreq, responders>>
    /\ UNCHANGED <<varsV, varsX>>

\* resRecv.Next returns because the context expired or was cancelled.
UpdateTimeout(p) ==
    /\ pc[p] = "waiting"
    /\ UpdateReturn(p, updateTimeout(mach[p]))
    /\ UNCHANGED <<calls, before, inbox, resp, hpc, hreq, responders>>
    /\ UNCHANGED <<varsV, varsX>>

\* A response arrives while no receiver for its version is subscribed: dropped.
DropResponse(p) ==
    /\ \E res \in resp[p] :
        /\ ~(pc[p] = "waiting" /\ res.version = mach[p].staged.version)
        /\ resp' = [resp EXCEPT ![p] = @ \ {res}]
    /\ UNCHANGED <<mach, mtx, pc, calls, ret, before, inbox, hpc, hreq, responders,
                   promoted, rolledBack, mutations>>
    /\ UNCHANGED <<varsV, varsX>>

\* handleUpdateReq up to the call of the user's HandleUpdate: lock the mutex,
\* drop the request when validTwoPartyUpdate or CheckUpdate fails.
HandleUpdateReq(p) ==
    /\ inbox[p] # <<>> /\ hpc[p] = "idle" /\ mtx[p] = "free"
    /\ LET req == Head(inbox[p])
           valid == /\ validTwoPartyUpdate(mach[p], req.state, req.actor, Peer(p))
                    /\ CheckUpdate(mach[p], req.state, req.actor, req.sig, Peer(p))
       IN  /\ inbox' = [inbox EXCEPT ![p] = Tail(@)]
           /\ IF valid
              THEN /\ hpc' = [hpc EXCEPT ![p] = "handling"]
                   /\ hreq' = [hreq EXCEPT ![p] = req]
                   /\ mtx' = [mtx EXCEPT ![p] = "req"]
              ELSE UNCHANGED <<hpc, hreq, mtx>>
    /\ UNCHANGED <<mach, pc, calls, ret, before, resp, responders, promoted,
                   rolledBack, mutations>>
    /\ UNCHANGED <<varsV, varsX>>

\* The effect of UpdateResponder.Accept by task `task` on peer p's channel.
Accept(p, req, sendOk, task) ==
    LET o == handleUpdateAcc(mach[p], p, Peer(p), req, sendOk)
    IN  /\ mach' = [mach EXCEPT ![p] = o.m]
        /\ resp' = [resp EXCEPT ![Peer(p)] = @ \cup o.out]
        /\ promoted' = [promoted EXCEPT ![p] = @ \o Promotion(mach[p], o.m)]
        /\ rolledBack' = rolledBack \cup
              (IF o.rolled THEN {[ch |-> p, side |-> "responder"]} ELSE {})
        /\ mutations' = mutations \cup {Mutation(p, task, mtx[p])}

\* The user's handler calls Accept before it returns (mutex held by handleUpdateReq).
HandlerAccept(p) ==
    /\ hpc[p] = "handling"
    /\ \E sendOk \in BOOLEAN : Accept(p, hreq[p], sendOk, "req")
    /\ hpc' = [hpc EXCEPT ![p] = "idle"]
    /\ hreq' = [hreq EXCEPT ![p] = NoReq]
    /\ mtx' = [mtx EXCEPT ![p] = "free"]
    /\ UNCHANGED <<pc, calls, ret, before, inbox, responders>>
    /\ UNCHANGED <<varsV, varsX>>

\* The user's handler calls Reject before it returns.
HandlerReject(p) ==
    /\ hpc[p] = "handling"
    /\ \E reason \in Reasons, sendOk \in BOOLEAN :
          resp' = [resp EXCEPT ![Peer(p)] = @ \cup handleUpdateRej(hreq[p], reason, sendOk)]
    /\ hpc' = [hpc EXCEPT ![p] = "idle"]
    /\ hreq' = [hreq EXCEPT ![p] = NoReq]
    /\ mtx' = [mtx EXCEPT ![p] = "free"]
    /\ UNCHANGED <<mach, pc, calls, ret, before, inbox, responders, promoted,
                   rolledBack, mutations>>
    /\ UNCHANGED <<varsV, varsX>>

\* The user's handler returns and keeps the responder to answer later.
HandlerDefer(p) ==
    /\ hpc[p] = "handling"
    /\ responders' = [responders EXCEPT ![p] = @ \cup {hreq[p]}]
    /\ hpc' = [hpc EXCEPT ![p] = "idle"]
    /\ hreq' = [hreq EXCEPT ![p] = NoReq]
    /\ mtx' = [mtx EXCEPT ![p] = "free"]
    /\ UNCHANGED <<mach, pc, calls, ret, before, inbox, resp, promoted,
                   rolledBack, mutations>>
    /\ UNCHANGED <<varsV, varsX>>

\* Accept on a kept responder, after handleUpdateReq has returned.
ResponderAccept(p) ==
    /\ \E req \in responders[p], sendOk \in BOOLEAN :
        /\ Accept(p, req, sendOk, "responder")
        /\ responders' = [responders EXCEPT ![p] = @ \ {req}]
    /\ UNCHANGED <<mtx, pc, calls, ret, before, inbox, hpc, hreq>>
    /\ UNCHANGED <<varsV, varsX>>

\* Reject on a kept responder, after handleUpdateReq has returned.
ResponderReject(p) ==
    /\ \E req \in responders[p], reason \in Reasons, sendOk \in BOOLEAN :
        /\ resp' = [resp EXCEPT ![Peer(p)] = @ \cup handleUpdateRej(req, reason, sendOk)]
        /\ responders' = [responders EXCEPT ![p] = @ \ {req}]
    /\ UNCHANGED <<mach, mtx, pc, calls, ret, before, inbox, hpc, hreq, promoted,
                   rolledBack, mutations>>
    /\ UNCHANGED <<varsV, varsX>>

NextU ==
    \E p \in Parts :
        \/ Update(p)
        \/ UpdateBy(p)
        \/ UpdateLockTimeout(p)
        \/ UpdateRecv(p)
        \/ UpdateTimeout(p)
        \/ DropResponse(p)
        \/ HandleUpdateReq(p)
        \/ HandlerAccept(p)
        \/ HandlerReject(p)
        \/ HandlerDefer(p)
        \/ ResponderAccept(p)
        \/ ResponderReject(p)

\* The update requests of a peer that does not follow the protocol, sent to p
\* whose current state is cur: the next state with p itself as actor, with a
\* sub-allocation added, or signed by another key than the sender's.
InvalidUpdates(p, cur) ==
    LET next == [cur EXCEPT !.version = @ + 1, !.bals = Bal(7, 13)]
        sub  == [next EXCEPT !.locked = {ForeignSubAlloc}]
    IN  { Request(next, p, Signature(Peer(p), next)),
          Request(sub, Peer(p), Signature(Peer(p), sub)),
          Request(next, Peer(p), Signature(p, next)) }

InitD == sentInvalid = [p \in Parts |-> {}]

\* The controller of p receives such a request from the peer and queues it for
\* handleUpdateReq: one request, before the first update of the channel.
RecvInvalidUpdate(p) ==
    /\ \A q \in Parts : sentInvalid[q] = {} /\ calls[q] = 0
    /\ \E req \in InvalidUpdates(p, mach[p].cur) :
          /\ inbox' = [inbox EXCEPT ![p] = Append(@, req)]
          /\ sentInvalid' = [sentInvalid EXCEPT ![p] = {req}]
    /\ UNCHANGED <<mach, mtx, pc, calls, ret, before, resp, hpc, hreq, responders,
                   promoted, rolledBack, mutations>>
    /\ UNCHANGED <<varsV, varsL, varsR, varsW, varsA, varsF, varsE, varsZ>>

\* The update protocol with such a peer; the handlers answer before they return.
NextUInvalid ==
    \/ RecvInvalidUpdate(0)
    \/ \E p \in Parts :
          \/ Update(p)
          \/ UpdateBy(p)
          \/ UpdateLockTimeout(p)
          \/ UpdateRecv(p)
          \/ UpdateTimeout(p)
          \/ DropResponse(p)
          \/ HandleUpdateReq(p)
          \/ HandlerAccept(p)
          \/ HandlerReject(p)

\* ------------------------------------------------- virtual-channel protocol
\* A virtual channel V between Alice and Bob is funded over two parent
\* channels, 1 (Alice-Ingrid) and 2 (Bob-Ingrid).  The proposer has index 0 and
\* Ingrid index 1 in each parent; in V, Alice has index 0 and Bob index 1.
Chans == {1, 2}

\* All ledger channels of the hub: the parents of V and one more channel, over
\* which V is never funded.
AllChans == {1, 2, 3}

\* Ingrid's index in both parent channels (second entry of the parts lists).
IngridIdx == 1

\* The hub's index in a virtual channel machine.
hubIndex == 0

\* Initial balances of the virtual channel a proposer may hold.
VirtualInits == {Bal(5, 5), Bal(0, 10)}

\* Final balances of the virtual channel a proposer may hold.
VirtualFinals == {Bal(2, 8), Bal(5, 5)}

\* Index maps a virtual channel proposal may assign to a parent.
IndexMaps == {Bal(0, 1), Bal(1, 0), Bal(1, 1)}

VirtualState(v, bals, final) == [version |-> v, bals |-> bals, isFinal |-> final, locked |-> {}]

\* machine.CurrentTX().Sigs of a virtual channel state signed by Alice and Bob.
VirtualSigs(s) == [i \in Parts |-> Signature(i, s)]

\* A translation that passes the balances on without applying the index map.
transformBalancesUnmapped(b, numParts, indexMap) == b

\* transformBalances: zero everywhere, then _b[indexMap[p]] = b[p] for p = 0, 1, ...
RECURSIVE Fill(_, _, _, _)
Fill(_b, b, indexMap, p) ==
    IF p \notin DOMAIN indexMap
    THEN _b
    ELSE Fill([_b EXCEPT ![indexMap[p]] = b[p]], b, indexMap, p + 1)

transformBalances(b, numParts, indexMap) ==
    Fill([q \in 0 .. (numParts - 1) |-> 0], b, indexMap, 0)

NumParts(s) == Cardinality(DOMAIN s.bals)

\* Channel.translateBalances on a virtual channel with current state vs.
translateBalances(vs, indexMap) == transformBalances(vs.bals, NumParts(vs), indexMap)

BalSum(b) == b[0] + b[1]
BalAdd(a, b) == [p \in DOMAIN a |-> a[p] + b[p]]
BalSub(a, b) == [p \in DOMAIN a |-> a[p] - b[p]]
AssertGreaterOrEqual(a, b) == \A p \in DOMAIN a : a[p] >= b[p]

NewSubAlloc(id, sum, indexMap) == [id |-> id, sum |-> sum, indexMap |-> indexMap]
HasSubAlloc(s, id) == \E x \in s.locked : x.id = id
SubAlloc(s, id) == CHOOSE x \in s.locked : x.id = id

\* A virtual-channel funding or settlement proposal: the parent update request
\* together with the virtual channel's state, its signatures and the index map.
ProposalSigs(kind, req, vs, vsigs, indexMap) ==
    [kind |-> kind, state |-> req.state, actor |-> req.actor, sig |-> req.sig,
     virtual |-> vs, vsigs |-> vsigs, indexMap |-> indexMap]

Proposal(kind, req, vs, indexMap) == ProposalSigs(kind, req, vs, VirtualSigs(vs), indexMap)
NoProp == Proposal("none", NoReq, NoState, Bal(0, 0))

\* proposeVirtualChannelFunding: the parent state the proposer builds.
FundingState(cur, vs, indexMap) ==
    LET balances == translateBalances(vs, indexMap)
    IN  [cur EXCEPT !.version = @ + 1,
                    !.bals = BalSub(@, balances),
                    !.locked = @ \cup {NewSubAlloc("V", BalSum(balances), indexMap)}]

\* withdrawVirtualChannel: the parent state the proposer builds; it panics when
\* the sub-allocation is missing or differs from the virtual channel's outcome.
SettlementPanics(cur, vs) ==
    \/ ~HasSubAlloc(cur, "V")
    \/ SubAlloc(cur, "V").sum # AllocSum(vs)

SettlementState(cur, vs) ==
    LET virtualAlloc == SubAlloc(cur, "V")
        virtualBalsRemapped == translateBalances(vs, virtualAlloc.indexMap)
    IN  [cur EXCEPT !.version = @ + 1,
                    !.bals = BalAdd(@, virtualBalsRemapped),
                    !.locked = @ \ {virtualAlloc}]

\* validateVirtualChannelFundingProposal: "nil" or the error.
validateVirtualChannelFundingProposal(cur, prop) ==
    IF prop.virtual.locked # {}
    THEN "cannot have locked funds"
    ELSE IF \E i \in DOMAIN prop.vsigs : ~Verify(i, prop.virtual, prop.vsigs[i])
    THEN "invalid signature"
    ELSE IF HasSubAlloc(cur, "V")
    THEN "virtual channel already allocated"
    ELSE IF \/ ~HasSubAlloc(prop.state, "V")
            \/ SubAlloc(prop.state, "V") # NewSubAlloc("V", AllocSum(prop.virtual), prop.indexMap)
    THEN "invalid allocation"
    ELSE IF ~AssertGreaterOrEqual(cur.bals,
               transformBalances(prop.virtual.bals, NumParts(cur), prop.indexMap))
    THEN "insufficient funds"
    ELSE "nil"

\* validateVirtualChannelSettlementProposal: "nil" or the error.
validateVirtualChannelSettlementProposal(cur, prop) ==
    IF \E i \in DOMAIN prop.vsigs : ~Verify(i, prop.virtual, prop.vsigs[i])
    THEN "invalid signature"
    ELSE IF ~HasSubAlloc(cur, "V") \/ SubAlloc(cur, "V").sum # AllocSum(prop.virtual)
    THEN "virtual channel not allocated"
    ELSE IF HasSubAlloc(prop.state, "V")
    THEN "virtual channel must not be de-allocated after update"
    ELSE IF BalAdd(cur.bals, transformBalances(prop.virtual.bals, NumParts(cur),
                                               SubAlloc(cur, "V").indexMap)) # prop.state.bals
    THEN "invalid balances"
    ELSE "nil"

\* The hub's entry for V in its channel registry: absent ("none"), present
\* ("open") with the machine of the hub's copy, or closed and deleted.
Copy(status, m) == [status |-> status, m |-> m]
NoCopy == Copy("none", NewMachine(NoState))

\* persistVirtualChannel: the hub's copy of the virtual channel, or an error
\* when the channel registry already holds the channel.
\* The channel is entered in the registry only after AddSig succeeded for every
\* signature given and EnableInit found the signatures of all participants.
persistVirtualChannel(cp, vs, vsigs) ==
    IF cp.status = "open"
    THEN [ok |-> FALSE, copy |-> cp]
    ELSE IF \E i \in DOMAIN vsigs : ~Verify(i, vs, vsigs[i])
    THEN [ok |-> FALSE, copy |-> cp]
    ELSE IF DOMAIN vsigs # Parts
    THEN [ok |-> FALSE, copy |-> cp]
    ELSE [ok |-> TRUE, copy |-> Copy("open", NewMachine(vs))]

\* A match that does not look at the index maps.
matchFundingProposalAnyMap(a, b, cp) ==
    IF b.virtual # a.virtual
    THEN [ok |-> FALSE, copy |-> cp]
    ELSE persistVirtualChannel(cp, a.virtual, a.vsigs)

\* matchFundingProposal(a, b): equal initial states, the index maps together
\* map every participant of V to the hub, and the hub's copy could be stored.
matchFundingProposal(a, b, cp) ==
    LET props == <<a, b>>
        indices == [j \in DOMAIN a.indexMap |->
                       \E i \in 1 .. 2 : props[i].indexMap[j] = IngridIdx]
    IN  IF b.virtual # a.virtual
        THEN [ok |-> FALSE, copy |-> cp]
        ELSE IF \E j \in DOMAIN indices : ~indices[j]
        THEN [ok |-> FALSE, copy |-> cp]
        ELSE persistVirtualChannel(cp, a.virtual, a.vsigs)

\* matchSettlementProposal(a, b): equal final states; the hub's copy takes the
\* final state with its signatures, is closed and leaves the channel registry.
matchSettlementProposal(a, b, cp) ==
    LET u == MachineUpdate(cp.m, a.virtual, hubIndex)
        s0 == MachineAddSig(u.m, 0, a.vsigs[0])
        s1 == MachineAddSig(s0.m, 1, a.vsigs[1])
        e == MachineEnable(s1.m, TRUE)
    IN  IF b.virtual # a.virtual
        THEN [ok |-> FALSE, copy |-> cp]
        ELSE IF cp.status # "open"
        THEN [ok |-> FALSE, copy |-> cp]
        ELSE IF ~u.ok THEN [ok |-> FALSE, copy |-> cp]
        ELSE IF ~s0.ok THEN [ok |-> FALSE, copy |-> Copy("open", s0.m)]
        ELSE IF ~s1.ok THEN [ok |-> FALSE, copy |-> Copy("open", s1.m)]
        ELSE IF ~e.ok THEN [ok |-> FALSE, copy |-> Copy("open", e.m)]
        ELSE [ok |-> TRUE, copy |-> Copy("closed", e.m)]

Kinds == {"fund", "settle"}

InitV ==
    /\ pmach = [c \in AllChans |-> NewMachine(InitState)]
    /\ imach = [c \in AllChans |-> NewMachine(InitState)]
    /\ ppc = [c \in AllChans |-> "init"]
    /\ pvirt = [c \in AllChans |-> NoState]
    /\ proposals = [c \in AllChans |-> NoProp]
    /\ vresp = [c \in AllChans |-> {}]
    /\ ipc = [c \in AllChans |-> "idle"]
    /\ hprop = [c \in AllChans |-> NoProp]
    /\ called = [c \in AllChans |-> FALSE]
    /\ match = [c \in AllChans |-> FALSE]
    /\ entries = [k \in Kinds |-> {}]
    /\ copy = NoCopy
    /\ panicked = FALSE
    /\ funded = [c \in AllChans |-> [virtual |-> NoState, indexMap |-> Bal(0, 0)]]
    /\ acceptCalls = {}
    /\ accepted = {}

\* updateGeneric on the proposer's parent machine: stage, sign and send the
\* update as a proposal of the given kind, then wait for the response.
ProposeVSigs(c, kind, next, vs, vsigs, indexMap, sendOk) ==
    LET o == updateStart(pmach[c], 1 - IngridIdx, next, sendOk)
    IN  /\ pmach' = [pmach EXCEPT ![c] = o.m]
        /\ pvirt' = [pvirt EXCEPT ![c] = vs]
        /\ IF o.err = "wait"
           THEN /\ proposals' = [proposals EXCEPT
                                    ![c] = ProposalSigs(kind, Head(o.out), vs, vsigs, indexMap)]
                /\ ppc' = [ppc EXCEPT ![c] = kind \o "Wait"]
           ELSE /\ proposals' = proposals
                /\ ppc' = [ppc EXCEPT ![c] = kind \o "Failed"]

ProposeV(c, kind, next, vs, indexMap, sendOk) ==
    ProposeVSigs(c, kind, next, vs, VirtualSigs(vs), indexMap, sendOk)

\* proposeVirtualChannelFunding by the proposer of parent c.
proposeVirtualChannelFunding(c) ==
    /\ ppc[c] = "init"
    /\ \E vb \in VirtualInits, indexMap \in IndexMaps, sendOk \in BOOLEAN :
          LET vs == VirtualState(0, vb, FALSE)
          IN  /\ ProposeV(c, "fund", FundingState(pmach[c].cur, vs, indexMap),
                          vs, indexMap, sendOk)
              /\ funded' = [funded EXCEPT ![c] = [virtual |-> vs, indexMap |-> indexMap]]
    /\ UNCHANGED <<imach, vresp, ipc, hprop, called, match, entries, copy, panicked,
                   acceptCalls, accepted>>
    /\ UNCHANGED <<varsU, varsX>>

\* withdrawVirtualChannel by the proposer of parent c, whose virtual channel has
\* reached a final state.
withdrawVirtualChannel(c) ==
    /\ ppc[c] = "fundDone"
    /\ \E vb \in VirtualFinals, sendOk \in BOOLEAN :
          LET vs == VirtualState(1, vb, TRUE)
          IN  IF SettlementPanics(pmach[c].cur, vs)
              THEN /\ ppc' = [ppc EXCEPT ![c] = "panicked"]
                   /\ UNCHANGED <<pmach, pvirt, proposals>>
              ELSE ProposeV(c, "settle", SettlementState(pmach[c].cur, vs), vs,
                            SubAlloc(pmach[c].cur, "V").indexMap, sendOk)
    /\ UNCHANGED <<imach, vresp, ipc, hprop, called, match, entries, copy, panicked,
                   funded, acceptCalls, accepted>>
    /\ UNCHANGED <<varsU, varsX>>

Kind(c) == IF ppc[c] = "fundWait" THEN "fund" ELSE "settle"

\* The proposer's call returns with the outcome o of updateFinish/updateTimeout.
ProposerReturn(c, o) ==
    /\ pmach' = [pmach EXCEPT ![c] = o.m]
    /\ ppc' = [ppc EXCEPT ![c] = Kind(c) \o (IF o.err = "nil" THEN "Done" ELSE "Failed")]

\* The proposer receives Ingrid's response to its proposal.
ProposerRecv(c) ==
    /\ ppc[c] \in {"fundWait", "settleWait"}
    /\ \E res \in vresp[c] :
        /\ res.version = pmach[c].staged.version
        /\ vresp' = [vresp EXCEPT ![c] = @ \ {res}]
        /\ ProposerReturn(c, updateFinish(pmach[c], IngridIdx, res))
    /\ UNCHANGED <<imach, pvirt, proposals, ipc, hprop, called, match, entries, copy,
                   panicked, funded, acceptCalls, accepted>>
    /\ UNCHANGED <<varsU, varsX>>

\* The proposer's context ends while it waits for the response.
ProposerTimeout(c) ==
    /\ ppc[c] \in {"fundWait", "settleWait"}
    /\ ProposerReturn(c, updateTimeout(pmach[c]))
    /\ UNCHANGED <<imach, pvirt, proposals, vresp, ipc, hprop, called, match, entries,
                   copy, panicked, funded, acceptCalls, accepted>>
    /\ UNCHANGED <<varsU, varsX>>

\* The condition function of the funding and of the settlement watcher.
Condition(kind, a, b, cp) ==
    IF kind = "fund" THEN matchFundingProposal(a, b, cp) ELSE matchSettlementProposal(a, b, cp)

Validate(kind, cur, prop) ==
    IF kind = "fund"
    THEN validateVirtualChannelFundingProposal(cur, prop)
    ELSE validateVirtualChannelSettlementProposal(cur, prop)

\* The orders in which the iteration over the map may visit the entries.
Orders(ents) ==
    { o \in [1 .. Cardinality(ents) -> ents] :
        \A x, y \in DOMAIN o : x # y => o[x] # o[y] }

\* The loop of register over the entries in the given order: the condition is
\* evaluated, with its effects on the hub's copy of V, until it holds for one.
RECURSIVE Visit(_, _, _, _)
Visit(kind, prop, order, cp) ==
    IF order = <<>>
    THEN [ok |-> FALSE, k |-> 0, copy |-> cp]
    ELSE LET r == Condition(kind, prop, hprop[Head(order)], cp)
         IN  IF r.ok
             THEN [ok |-> TRUE, k |-> Head(order), copy |-> r.copy]
             ELSE Visit(kind, prop, Tail(order), r.copy)

\* stateWatcher.register for the handler of parent c with state prop: the
\* condition is evaluated against the registered entries; on a match both
\* match channels get a token and the matched entry is deleted, else the
\* handler is entered.
register(kind, c, prop) ==
    \E order \in Orders(entries[kind]) :
        LET r == Visit(kind, prop, order, copy)
        IN  /\ copy' = r.copy
            /\ IF r.ok
               THEN /\ match' = [match EXCEPT ![c] = TRUE, ![r.k] = TRUE]
                    /\ entries' = [entries EXCEPT ![kind] = @ \ {r.k}]
               ELSE /\ entries' = [entries EXCEPT ![kind] = @ \cup {c}]
                    /\ match' = match

\* handleVirtualChannelFundingProposal / handleVirtualChannelSettlementProposal
\* up to the select in Await: validate, reject on an error, and (in either case)
\* register with the watcher.
HandleProposal(c, kind) ==
    /\ ~panicked /\ ipc[c] = "idle"
    /\ proposals[c].kind = kind
    /\ LET prop == proposals[c]
           err == Validate(kind, imach[c].cur, prop)
       IN  /\ \E sendOk \in BOOLEAN :
                 IF err # "nil"
                 THEN /\ called' = [called EXCEPT ![c] = TRUE]
                      /\ vresp' = [vresp EXCEPT ![c] = @ \cup handleUpdateRej(prop, err, sendOk)]
                 ELSE /\ called' = [called EXCEPT ![c] = FALSE]
                      /\ vresp' = vresp
           /\ register(kind, c, prop)
           /\ hprop' = [hprop EXCEPT ![c] = prop]
    /\ proposals' = [proposals EXCEPT ![c] = NoProp]
    /\ ipc' = [ipc EXCEPT ![c] = "await"]
    /\ UNCHANGED <<pmach, imach, ppc, pvirt, panicked, funded, acceptCalls, accepted>>
    /\ UNCHANGED <<varsU, varsX>>

handleVirtualChannelFundingProposal(c) == HandleProposal(c, "fund")

handleVirtualChannelSettlementProposal(c) == HandleProposal(c, "settle")

\* stateWatcher.deregister
deregister(kind, c) == [entries EXCEPT ![kind] = @ \ {c}]

\* Await returns nil after a match; the handler goes on to acceptProposal.
\* Accept panics when the responder was used before.
AwaitMatch(c) ==
    /\ ~panicked /\ ipc[c] = "await" /\ match[c]
    /\ entries' = deregister(hprop[c].kind, c)
    /\ acceptCalls' = acceptCalls \cup {[ch |-> c, kind |-> hprop[c].kind, matched |-> TRUE]}
    /\ IF called[c]
       THEN /\ panicked' = TRUE
            /\ UNCHANGED <<imach, vresp, ipc, hprop, called, match, accepted>>
       ELSE \E sendOk \in BOOLEAN :
               LET o == handleUpdateAcc(imach[c], IngridIdx, 1 - IngridIdx, hprop[c], sendOk)
               IN  /\ imach' = [imach EXCEPT ![c] = o.m]
                   /\ vresp' = [vresp EXCEPT ![c] = @ \cup o.out]
                   /\ accepted' = accepted \cup
                         (IF o.err = "nil" THEN {<<hprop[c].kind, c>>} ELSE {})
                   /\ ipc' = [ipc EXCEPT ![c] = "idle"]
                   /\ hprop' = [hprop EXCEPT ![c] = NoProp]
                   /\ called' = [called EXCEPT ![c] = FALSE]
                   /\ match' = [match EXCEPT ![c] = FALSE]
                   /\ panicked' = panicked
    /\ UNCHANGED <<pmach, ppc, pvirt, proposals, copy, funded>>
    /\ UNCHANGED <<varsU, varsX>>

\* Await returns the context's error (also when a token is ready: select may
\* take either case); the handler calls rejectProposal and then acceptProposal.
\* The second call on the responder panics.
AwaitTimeout(c) ==
    /\ ~panicked /\ ipc[c] = "await"
    /\ entries' = deregister(hprop[c].kind, c)
    /\ \E sendOk \in BOOLEAN :
          IF called[c]
          THEN UNCHANGED <<vresp, called, acceptCalls>>
          ELSE /\ called' = [called EXCEPT ![c] = TRUE]
               /\ vresp' = [vresp EXCEPT ![c] = @ \cup
                               handleUpdateRej(hprop[c], "context deadline exceeded", sendOk)]
               /\ acceptCalls' = acceptCalls \cup
                     {[ch |-> c, kind |-> hprop[c].kind, matched |-> match[c]]}
    /\ panicked' = TRUE
    /\ UNCHANGED <<pmach, imach, ppc, pvirt, proposals, ipc, hprop, match, copy, funded,
                   accepted>>
    /\ UNCHANGED <<varsU, varsX>>

NextV ==
    \E c \in Chans :
        \/ proposeVirtualChannelFunding(c)
        \/ withdrawVirtualChannel(c)
        \/ ProposerRecv(c)
        \/ ProposerTimeout(c)
        \/ handleVirtualChannelFundingProposal(c)
        \/ handleVirtualChannelSettlementProposal(c)
        \/ AwaitMatch(c)
        \/ AwaitTimeout(c)

\* The peer of a channel that does not fund V sends a settlement proposal for
\* V over it: the final state of V with the signatures of both participants
\* and the next version of the channel's state.
ProposeForeignSettlement(c) ==
    /\ ppc[c] = "init"
    /\ \E vb \in VirtualFinals, sendOk \in BOOLEAN :
          LET vs == VirtualState(1, vb, TRUE)
              next == [pmach[c].cur EXCEPT !.version = @ + 1]
          IN  ProposeV(c, "settle", next, vs, Bal(0, 1), sendOk)
    /\ UNCHANGED <<imach, vresp, ipc, hprop, called, match, entries, copy, panicked,
                   funded, acceptCalls, accepted>>
    /\ UNCHANGED <<varsU, varsX>>

\* The signature lists a funding proposal may carry besides the full one: the
\* first signatures of the list only.
FewerSigs(vs) == { [i \in 0 .. (n - 1) |-> Signature(i, vs)] : n \in 0 .. 1 }

\* The proposer of parent c sends a funding proposal that carries fewer
\* signatures on the initial state of V than V has participants.
ProposeFundingFewerSigs(c) ==
    /\ ppc[c] = "init"
    /\ \E vb \in VirtualInits, indexMap \in IndexMaps, sendOk \in BOOLEAN :
          LET vs == VirtualState(0, vb, FALSE)
          IN  /\ \E vsigs \in FewerSigs(vs) :
                    ProposeVSigs(c, "fund", FundingState(pmach[c].cur, vs, indexMap),
                                 vs, vsigs, indexMap, sendOk)
              /\ funded' = [funded EXCEPT ![c] = [virtual |-> vs, indexMap |-> indexMap]]
    /\ UNCHANGED <<imach, vresp, ipc, hprop, called, match, entries, copy, panicked,
                   acceptCalls, accepted>>
    /\ UNCHANGED <<varsU, varsX>>

\* Initial balances of V that a proposer who deviates may name.
UnbackedInits == {Bal(8, 8)}

\* The proposer of parent c sends a funding proposal built without
\* transformBalances: the sub-allocation holds the sum of the initial state of
\* V, as the validation expects, and the parent balances are lowered by the
\* initial balances of V as they are.
ProposeFundingUnbacked(c) ==
    /\ ppc[c] = "init"
    /\ \E vb \in UnbackedInits, indexMap \in IndexMaps, sendOk \in BOOLEAN :
          LET vs == VirtualState(0, vb, FALSE)
              next == [pmach[c].cur EXCEPT
                          !.version = @ + 1,
                          !.bals = BalSub(@, vb),
                          !.locked = @ \cup {NewSubAlloc("V", AllocSum(vs), indexMap)}]
          IN  /\ ProposeV(c, "fund", next, vs, indexMap, sendOk)
              /\ funded' = [funded EXCEPT ![c] = [virtual |-> vs, indexMap |-> indexMap]]
    /\ UNCHANGED <<imach, vresp, ipc, hprop, called, match, entries, copy, panicked,
                   acceptCalls, accepted>>
    /\ UNCHANGED <<varsU, varsX>>

NextVFaulty ==
    \/ NextV
    \/ \E c \in Chans :
          \/ ProposeFundingFewerSigs(c)
          \/ ProposeFundingUnbacked(c)

NextVForeign ==
    \/ NextV
    \/ \E c \in AllChans \ Chans :
          \/ ProposeForeignSettlement(c)
          \/ ProposerRecv(c)
          \/ ProposerTimeout(c)
          \/ handleVirtualChannelSettlementProposal(c)
          \/ AwaitMatch(c)
          \/ AwaitTimeout(c)

\* ------------------------------------------------------- the machine mutex
\* The tasks that acquire machine mutexes: Update/UpdateBy, handleUpdateReq,
\* the watcher's setMachinePhase, Settle and Register on a channel ("root"),
\* and an Update on its sub-channel ("sub").
LockTasks == {"update", "req", "watch", "settle", "register", "subUpdate"}

\* The mutexes a task locks, in order.  Register locks the channel and then,
\* in tryLockRecursive, every sub-channel.
LockOrder(t) ==
    IF t = "register" THEN <<"root", "sub">>
    ELSE IF t = "subUpdate" THEN <<"sub">>
    ELSE <<"root">>

\* The call with which a task acquires a mutex.
LockCall(t) == IF t = "req" THEN "Lock" ELSE "TryLockCtx"

InitL ==
    /\ lmtx = [m \in {"root", "sub"} |-> "free"]
    /\ lpc = [t \in LockTasks |-> "run"]
    /\ lheld = [t \in LockTasks |-> 0]
    /\ lctx = [t \in LockTasks |-> FALSE]

\* The mutex task t is about to lock.
Wanted(t) == LockOrder(t)[lheld[t] + 1]

\* mutexList.Unlock / Unlock: free every mutex t holds.
Unlock(t) == [m \in DOMAIN lmtx |-> IF lmtx[m] = t THEN "free" ELSE lmtx[m]]

\* Mutex.TryLockCtx and Mutex.Lock get the mutex when it is free.
LockAcquire(t) ==
    /\ lpc[t] \in {"run", "wait"}
    /\ lmtx[Wanted(t)] = "free"
    /\ lmtx' = [lmtx EXCEPT ![Wanted(t)] = t]
    /\ lheld' = [lheld EXCEPT ![t] = @ + 1]
    /\ lpc' = [lpc EXCEPT ![t] = IF lheld[t] + 1 = Len(LockOrder(t)) THEN "hold" ELSE "run"]
    /\ UNCHANGED lctx
    /\ UNCHANGED <<varsU, varsV, varsR, varsW, varsY>>

\* The mutex is taken: Lock blocks; TryLockCtx blocks, or returns false when
\* the context has ended already.
LockBlock(t) ==
    /\ lpc[t] = "run"
    /\ lmtx[Wanted(t)] # "free"
    /\ IF LockCall(t) = "TryLockCtx" /\ lctx[t]
       THEN /\ lpc' = [lpc EXCEPT ![t] = "failed"]
            /\ lmtx' = Unlock(t)
            /\ lheld' = [lheld EXCEPT ![t] = 0]
       ELSE /\ lpc' = [lpc EXCEPT ![t] = "wait"]
            /\ UNCHANGED <<lmtx, lheld>>
    /\ UNCHANGED lctx
    /\ UNCHANGED <<varsU, varsV, varsR, varsW, varsY>>

\* The context of task t expires or is cancelled.  A task blocked in
\* TryLockCtx returns false, and its caller returns the error (Register after
\* unlocking the mutexes it has); a task blocked in Lock stays blocked.
LockCtxDone(t) ==
    /\ ~lctx[t] /\ lpc[t] \in {"run", "wait", "hold"}
    /\ lctx' = [lctx EXCEPT ![t] = TRUE]
    /\ IF lpc[t] = "wait" /\ LockCall(t) = "TryLockCtx"
       THEN /\ lpc' = [lpc EXCEPT ![t] = "failed"]
            /\ lmtx' = Unlock(t)
            /\ lheld' = [lheld EXCEPT ![t] = 0]
       ELSE UNCHANGED <<lpc, lmtx, lheld>>
    /\ UNCHANGED <<varsU, varsV, varsR, varsW, varsY>>

\* Task t has done its work under the mutexes and unlocks them.
LockRelease(t) ==
    /\ lpc[t] = "hold"
    /\ lpc' = [lpc EXCEPT ![t] = "done"]
    /\ lmtx' = Unlock(t)
    /\ lheld' = [lheld EXCEPT ![t] = 0]
    /\ UNCHANGED lctx
    /\ UNCHANGED <<varsU, varsV, varsR, varsW, varsY>>

NextL ==
    \E t \in LockTasks :
        \/ LockAcquire(t)
        \/ LockBlock(t)
        \/ LockCtxDone(t)
        \/ LockRelease(t)

\* ------------------------------------------------------ the update responder
\* The goroutines of the user that call Accept or Reject on one responder.
Callers == 1 .. 3

\* The responder belongs to peer 1; the request is peer 0's.
ResponderIdx == 1

\* The states peer 0 may have proposed in the request handed to the handler.
ResponderStates ==
    { [InitState EXCEPT !.version = 1, !.bals = Bal(7, 13)],
      [InitState EXCEPT !.version = 1, !.bals = Bal(13, 7)],
      [InitState EXCEPT !.version = 1, !.bals = Bal(13, 7), !.isFinal = TRUE] }

\* A flag that lets every call pass.
TrySetUnchecked(flag) == [ok |-> TRUE, flag |-> TRUE]

\* atomic.Bool.TrySet: set the flag, and tell whether this call set it.
TrySet(flag) == [ok |-> ~flag, flag |-> TRUE]

InitR ==
    /\ rmach = NewMachine(InitState)
    /\ rreq = NoReq
    /\ rcalled = FALSE
    /\ rpc = [c \in Callers |-> "idle"]
    /\ rorder = <<>>
    /\ rout = {}
    /\ rmutBy = {}

\* handleUpdateReq creates the responder for a request that passed its checks
\* and hands it to the user's handler.
NewResponder ==
    /\ rreq = NoReq
    /\ rreq' \in { Request(s, Peer(ResponderIdx), Signature(Peer(ResponderIdx), s)) :
                      s \in ResponderStates }
    /\ UNCHANGED <<rmach, rcalled, rpc, rorder, rout, rmutBy>>
    /\ UNCHANGED <<varsU, varsV, varsL, varsW, varsY>>

\* Caller c enters Accept or Reject.  A call without a context returns an
\* error at once; any other call tests the called flag, and panics when it
\* finds the flag set.
ResponderCall(c, kind) ==
    /\ rreq # NoReq /\ rpc[c] = "idle"
    /\ \E ctxNil \in BOOLEAN :
          IF ctxNil
          THEN /\ rpc' = [rpc EXCEPT ![c] = "context must not be nil"]
               /\ UNCHANGED <<rcalled, rorder>>
          ELSE LET t == TrySet(rcalled)
               IN  /\ rcalled' = t.flag
                   /\ rpc' = [rpc EXCEPT ![c] = IF t.ok THEN kind ELSE "panicked"]
                   /\ rorder' = Append(rorder, c)
    /\ UNCHANGED <<rmach, rreq, rout, rmutBy>>
    /\ UNCHANGED <<varsU, varsV, varsL, varsW, varsY>>

\* UpdateResponder.Accept up to the call of handleUpdateAcc.
AcceptCall(c) == ResponderCall(c, "accept")

\* UpdateResponder.Reject up to the call of handleUpdateRej.
RejectCall(c) == ResponderCall(c, "reject")

\* The call of c that passed the test runs handleUpdateAcc.
AcceptAct(c) ==
    /\ rpc[c] = "accept"
    /\ \E sendOk \in BOOLEAN :
          LET o == handleUpdateAcc(rmach, ResponderIdx, Peer(ResponderIdx), rreq, sendOk)
          IN  /\ rmach' = o.m
              /\ rout' = rout \cup { [by |-> c, msg |-> x] : x \in o.out }
              /\ rmutBy' = rmutBy \cup {c}
    /\ rpc' = [rpc EXCEPT ![c] = "done"]
    /\ UNCHANGED <<rreq, rcalled, rorder>>
    /\ UNCHANGED <<varsU, varsV, varsL, varsW, varsY>>

\* The call of c that passed the test runs handleUpdateRej.
RejectAct(c) ==
    /\ rpc[c] = "reject"
    /\ \E reason \in Reasons, sendOk \in BOOLEAN :
          rout' = rout \cup { [by |-> c, msg |-> x] : x \in handleUpdateRej(rreq, reason, sendOk) }
    /\ rpc' = [rpc EXCEPT ![c] = "done"]
    /\ UNCHANGED <<rmach, rreq, rcalled, rorder, rmutBy>>
    /\ UNCHANGED <<varsU, varsV, varsL, varsW, varsY>>

NextR ==
    \/ NewResponder
    \/ \E c \in Callers :
        \/ AcceptCall(c)
        \/ RejectCall(c)
        \/ AcceptAct(c)
        \/ RejectAct(c)

\* ------------------------------------------------------------- the watcher
\* The highest version the two peers agree on before the dispute.
LocalVersion == 2

\* The highest version a peer may hold a fully signed state of.
MaxVersion == LocalVersion + 1

Event(type, v) == [type |-> type, version |-> v]
NoEvent == Event("none", -1)

\* Watch registers the local state when the event's version is lower or equal.
RefutesEqual(ev, local) == ev <= local

\* Watch registers the local state when the event's version is lower.
Refutes(ev, local) == ev < local

\* Watch panics when the event's version is higher than the local one.
Fatal(ev, local) == ev > local

InitW ==
    /\ wlocal = 1
    /\ wphase = "Acting"
    /\ chainV = -1
    /\ concluded = FALSE
    /\ wlog = <<>>
    /\ wslot = NoEvent
    /\ wpc = "next"
    /\ whist = <<>>

\* The peers complete another update while the channel is in phase Acting and
\* no peer has gone to the chain.
LocalUpdate ==
    /\ wphase = "Acting" /\ chainV = -1 /\ wlocal < LocalVersion
    /\ wlocal' = wlocal + 1
    /\ UNCHANGED <<wphase, chainV, concluded, wlog, wslot, wpc, whist>>
    /\ UNCHANGED <<varsU, varsV, varsL, varsR, varsY>>

\* The adjudicator contract takes a registration of version v when nothing is
\* registered or v is newer, and emits a Registered event.
ChainAccepts(v) == ~concluded /\ v > chainV

\* The peer registers one of its fully signed states, of a version in vs.
PeerRegister(vs) ==
    /\ \E v \in vs :
          /\ ChainAccepts(v)
          /\ chainV' = v
          /\ wlog' = Append(wlog, Event("Registered", v))
    /\ UNCHANGED <<wlocal, wphase, concluded, wslot, wpc, whist>>
    /\ UNCHANGED <<varsU, varsV, varsL, varsR, varsY>>

\* The challenge period has passed and the registered state, of a version in
\* vs, is concluded.
ChainConclude(vs) ==
    /\ chainV \in vs /\ ~concluded
    /\ concluded' = TRUE
    /\ wlog' = Append(wlog, Event("Concluded", chainV))
    /\ UNCHANGED <<wlocal, wphase, chainV, wslot, wpc, whist>>
    /\ UNCHANGED <<varsU, varsV, varsL, varsR, varsY>>

\* The subscription takes the next event of the chain: it replaces the queued
\* event when it is of a newer version, or of the same version and later.
Deliver ==
    /\ wlog # <<>>
    /\ wlog' = Tail(wlog)
    /\ wslot' = IF Head(wlog).version >= wslot.version THEN Head(wlog) ELSE wslot
    /\ UNCHANGED <<wlocal, wphase, chainV, concluded, wpc, whist>>
    /\ UNCHANGED <<varsU, varsV, varsL, varsR, varsY>>

\* setMachinePhase: SetRegistered for a RegisteredEvent, nothing for a
\* ConcludedEvent.
setMachinePhase(phase, e) == IF e.type = "Registered" THEN "Registered" ELSE phase

\* One turn of the loop of Watch for the event e that sub.Next returned, up to
\* the call of Register or to the dispatch of e.  ctxs are the values the
\* outcome "context done while locking the machine" may take.
WatchNext(ctxs) ==
    /\ wpc = "next" /\ wslot # NoEvent
    /\ wslot' = NoEvent
    /\ \E ctxDone \in ctxs :
          IF ctxDone
          THEN /\ wpc' = "returned"
               /\ UNCHANGED <<wphase, whist>>
          ELSE /\ wphase' = setMachinePhase(wphase, wslot)
               /\ IF wslot.type # "Registered"
                  THEN UNCHANGED <<wpc, whist>>
                  ELSE LET e == wslot.version
                           fatal == Fatal(e, wlocal)
                           reg == ~fatal /\ Refutes(e, wlocal)
                       IN  /\ whist' = Append(whist,
                                  [e |-> e, L |-> wlocal,
                                   registers |-> IF reg THEN 1 ELSE 0,
                                   dispatched |-> ~fatal /\ ~reg])
                           /\ wpc' = IF fatal THEN "panicked"
                                     ELSE IF reg THEN "registering" ELSE "next"
    /\ UNCHANGED <<wlocal, chainV, concluded, wlog>>
    /\ UNCHANGED <<varsU, varsV, varsL, varsR, varsY>>

\* Channel.Register called by Watch returns.  It succeeds when the chain takes
\* the local state and the call is not among those that fail (fails): then the
\* machine is in phase Registered and Watch dispatches the event.  Otherwise
\* Watch returns the error.
WatchRegister(fails) ==
    /\ wpc = "registering"
    /\ \E fail \in fails :
          IF ~fail /\ ChainAccepts(wlocal)
          THEN /\ chainV' = wlocal
               /\ wlog' = Append(wlog, Event("Registered", wlocal))
               /\ wphase' = "Registered"
               /\ whist' = [whist EXCEPT ![Len(whist)].dispatched = TRUE]
               /\ wpc' = "next"
          ELSE /\ wpc' = "returned"
               /\ wphase' = "Registering"
               /\ UNCHANGED <<chainV, wlog, whist>>
    /\ UNCHANGED <<wlocal, concluded, wslot>>
    /\ UNCHANGED <<varsU, varsV, varsL, varsR, varsY>>

NextW ==
    \/ LocalUpdate
    \/ PeerRegister(0 .. MaxVersion)
    \/ ChainConclude(0 .. MaxVersion)
    \/ Deliver
    \/ WatchNext(BOOLEAN)
    \/ WatchRegister(BOOLEAN)

\* The dispute in which the peer holds no state newer than the local one, the
\* challenge period outlasts the refutation, no context ends and the
\* adjudicator calls fail only when the chain refuses.
NextWLive ==
    \/ LocalUpdate
    \/ PeerRegister(0 .. wlocal)
    \/ ChainConclude(wlocal .. MaxVersion)
    \/ Deliver
    \/ WatchNext({FALSE})
    \/ WatchRegister({FALSE})

\* ------------------------------------------------ adjudicator (ethereum)
\* The chain IDs of the assets that occur.  An asset is modelled by its chain
\* ID, the only field of an asset that backendSet.Add reads.
ChainIDs == {1337, 1338}

MaxAssets == 2

\* The asset lists of a state: one to MaxAssets assets.
AssetLists == UNION { [1 .. n -> ChainIDs] : n \in 1 .. MaxAssets }

\* The sub-states supplied with a request, by their asset lists: none, or one
\* sub-state with one asset.
SubStates == {<<>>} \cup { << <<c>> >> : c \in ChainIDs }

Range(s) == { s[i] : i \in DOMAIN s }

AdjReq(kind, tx, subs, final, secondary) ==
    [kind |-> kind, tx |-> tx, subs |-> subs, final |-> final,
     secondary |-> secondary]

NoAdjReq == AdjReq("none", <<>>, <<>>, FALSE, FALSE)

\* The phases of a channel on a chain, in the order a chain passes them.  Each
\* change of phase emits a ChannelUpdate event carrying the new phase.
Phases == <<"none", "Registered", "ForceExec", "Concluded">>

AnyPhase(ph) == TRUE

NoPhase(ph) == FALSE

phaseConcluded(ph) == ph = "Concluded"

\* backendSet.Add that skips the assets without a registered backend.
RECURSIVE AddAssetsSkipMissing(_, _, _)
AddAssetsSkipMissing(reg, m, assets) ==
    IF assets = <<>> THEN [err |-> "nil", m |-> m]
    ELSE AddAssetsSkipMissing(reg, m \cup ({Head(assets)} \cap reg), Tail(assets))

\* backendSet.Add for one asset list: every asset's chain ID must have a
\* registered backend (reg); the backend is put into the set m under its ID.
RECURSIVE AddAssets(_, _, _)
AddAssets(reg, m, assets) ==
    IF assets = <<>> THEN [err |-> "nil", m |-> m]
    ELSE IF Head(assets) \notin reg
         THEN [err |-> "no backend registered for chain ID", m |-> m]
         ELSE AddAssets(reg, m \cup {Head(assets)}, Tail(assets))

\* backendSet.Add(assets...) and the successive Add calls of one operation:
\* the lists in order, stopping at the first error.
RECURSIVE Add(_, _, _)
Add(reg, m, lists) ==
    IF lists = <<>> THEN [err |-> "nil", m |-> m]
    ELSE LET r == AddAssets(reg, m, Head(lists))
         IN  IF r.err # "nil" THEN r ELSE Add(reg, r.m, Tail(lists))

\* backendSet.List: the backends of the set in the order the map is iterated,
\* which is any order.
List(m) ==
    { l \in [1 .. Cardinality(m) -> m] :
        \A i, j \in 1 .. Cardinality(m) : l[i] = l[j] => i = j }

\* What happens to the transaction of one backend inside Adjudicator.call.
CallOutcomes ==
    {"lockctx", "transactor", "unreachable", "fn", "confirmed", "timedout",
     "txfailed", "mining"}

\* The record of one call of Adjudicator.call: the transaction type, the list
\* of backends, the returned error ("nil" for none) and the backends whose
\* transaction was sent, was confirmed, or timed out waiting for confirmation.
NoCall(txType, list) ==
    [txType |-> txType, list |-> list, err |-> "running",
     sent |-> {}, conf |-> {}, timed |-> {}]

\* Adjudicator.call over the remaining backends (list); out[b] is what happens
\* to the transaction of backend b and acc the record so far.
RECURSIVE call(_, _, _)
call(list, out, acc) ==
    IF list = <<>> THEN [acc EXCEPT !.err = "nil"]
    ELSE
      LET b == Head(list)
          sent == [acc EXCEPT !.sent = @ \cup {b}]
      IN  CASE out[b] = "lockctx" ->
                 [acc EXCEPT !.err = "context canceled while acquiring tx lock"]
            [] out[b] = "transactor" ->
                 [acc EXCEPT !.err = "creating transactor"]
            [] out[b] = "unreachable" ->
                 [acc EXCEPT !.err = "calling adjudicator function: chain not reachable"]
            [] out[b] = "fn" ->
                 [acc EXCEPT !.err = "calling adjudicator function"]
            [] out[b] = "confirmed" ->
                 call(Tail(list), out, [sent EXCEPT !.conf = @ \cup {b}])
            [] out[b] = "timedout" ->
                 \* err is assigned the TxTimedoutError and the loop goes on
                 call(Tail(list), out, [sent EXCEPT !.timed = @ \cup {b}])
            [] out[b] = "txfailed" ->
                 [sent EXCEPT !.err = "mining transaction: transaction failed"]
            [] OTHER ->
                 [sent EXCEPT !.err = "mining transaction"]

IsErrNil(err) == err = "nil"

IsErrTxFailed(err) == err = "mining transaction: transaction failed"

InitA ==
    /\ backends = {}
    /\ areq = NoAdjReq
    /\ aset = {}
    /\ acalls = {}
    /\ aerr = "none"
    /\ epc = [b \in ChainIDs |-> "idle"]
    /\ eseen = [b \in ChainIDs |-> "none"]
    /\ onchain = [b \in ChainIDs |-> "none"]

\* Adjudicator.RegisterBackend, before the operation.
RegisterBackend(id) ==
    /\ areq = NoAdjReq
    /\ id \notin backends
    /\ backends' = backends \cup {id}
    /\ UNCHANGED <<areq, aset, acalls, aerr, epc, eseen, onchain>>
    /\ UNCHANGED <<varsU, varsV, varsL, varsR, varsW, varsF, varsD, varsE, varsZ>>

\* The chain of backend b moves the channel to a later phase: a participant's
\* transaction is mined there.  The phases matter to the conclude step only,
\* which reads the events of the past after it has started.
ChainAdvance(b) ==
    /\ areq.kind = "Withdraw" /\ aerr = "running"
    /\ b \in backends
    /\ \E i, j \in DOMAIN Phases :
          /\ Phases[i] = onchain[b]
          /\ i < j
          /\ onchain' = [onchain EXCEPT ![b] = Phases[j]]
    /\ UNCHANGED <<backends, areq, aset, acalls, aerr, epc, eseen>>
    /\ UNCHANGED <<varsU, varsV, varsL, varsR, varsW, varsF, varsD, varsE, varsZ>>

\* The backends gathered (r), one call of Adjudicator.call over all of them.
CallBackends(txType, r) ==
    IF r.err # "nil"
    THEN /\ aerr' = r.err
         /\ UNCHANGED acalls
    ELSE \E list \in List(r.m), out \in [r.m -> CallOutcomes] :
            LET res == call(list, out, NoCall(txType, list))
            IN  /\ acalls' = acalls \cup {res}
                /\ aerr' = res.err

\* Adjudicator.callRegister(ctx, req, subChannels).
callRegister ==
    /\ areq = NoAdjReq
    /\ \E tx \in AssetLists, subs \in SubStates :
          LET r == Add(backends, {}, <<tx>> \o subs)
          IN  /\ areq' = AdjReq("Register", tx, subs, FALSE, FALSE)
              /\ aset' = r.m
              /\ CallBackends("Register", r)
    /\ UNCHANGED <<backends, epc, eseen, onchain>>
    /\ UNCHANGED <<varsU, varsV, varsL, varsR, varsW, varsF, varsD, varsE, varsZ>>

\* Adjudicator.Progress(ctx, req).  The new state of a progression has the
\* assets of the current one.
Progress ==
    /\ areq = NoAdjReq
    /\ \E tx \in AssetLists :
          LET r == Add(backends, {}, <<tx, tx>>)
          IN  /\ areq' = AdjReq("Progress", tx, <<>>, FALSE, FALSE)
              /\ aset' = r.m
              /\ CallBackends("Progress", r)
    /\ UNCHANGED <<backends, epc, eseen, onchain>>
    /\ UNCHANGED <<varsU, varsV, varsL, varsR, varsW, varsF, varsD, varsE, varsZ>>

\* Adjudicator.ensureConcluded up to the launch of one ensureConcludedBackend
\* per backend of the set.
ensureConcluded ==
    /\ areq = NoAdjReq
    /\ \E tx \in AssetLists, subs \in SubStates, final, secondary \in BOOLEAN :
          LET r == Add(backends, {}, <<tx>> \o subs)
          IN  /\ areq' = AdjReq("Withdraw", tx, subs, final, secondary)
              /\ aset' = r.m
              /\ IF r.err # "nil"
                 THEN /\ aerr' = r.err
                      /\ UNCHANGED epc
                 ELSE /\ aerr' = "running"
                      /\ epc' = [b \in ChainIDs |->
                                   IF b \in r.m THEN "subscribe" ELSE "idle"]
    /\ UNCHANGED <<backends, acalls, eseen, onchain>>
    /\ UNCHANGED <<varsU, varsV, varsL, varsR, varsW, varsF, varsD, varsE, varsZ>>

\* What ensureConcludedBackend returned for a backend, once it has.
EnsureErrors ==
    {"subscribing", "isConcluded", "waiting for secondary conclude",
     "concluding", "context cancelled", "subscription error"}

\* ensureConcludedBackend returns nil on an event of phase ph read from the
\* subscription of backend b.
ReturnOnEvent(b, ph) ==
    /\ ph # "none"
    /\ phaseConcluded(ph)
    /\ epc' = [epc EXCEPT ![b] = "nil"]
    /\ eseen' = [eseen EXCEPT ![b] = ph]

\* ensureConcludedBackend: Subscribe and isConcluded, which reads the past
\* events of the channel.
Subscribe(b) ==
    /\ epc[b] = "subscribe"
    /\ \/ \E e \in {"subscribing", "isConcluded"} :
             /\ epc' = [epc EXCEPT ![b] = e]
             /\ UNCHANGED eseen
       \/ ReturnOnEvent(b, onchain[b])
       \/ /\ ~(onchain[b] # "none" /\ phaseConcluded(onchain[b]))
          /\ epc' = [epc EXCEPT ![b] = "secondary"]
          /\ UNCHANGED eseen
    /\ UNCHANGED <<backends, areq, aset, acalls, aerr, onchain>>
    /\ UNCHANGED <<varsU, varsV, varsL, varsR, varsW, varsF, varsD, varsE, varsZ>>

\* ensureConcludedBackend: waitConcludedSecondary.  With a final state and as
\* the secondary party it waits some blocks for a Concluded event.
waitConcludedSecondary(b) ==
    /\ epc[b] = "secondary"
    /\ IF areq.final /\ areq.secondary
       THEN \/ ReturnOnEvent(b, onchain[b])
            \/ /\ epc' = [epc EXCEPT ![b] = "conclude"]
               /\ UNCHANGED eseen
            \/ /\ epc' = [epc EXCEPT ![b] = "waiting for secondary conclude"]
               /\ UNCHANGED eseen
       ELSE /\ epc' = [epc EXCEPT ![b] = "conclude"]
            /\ UNCHANGED eseen
    /\ UNCHANGED <<backends, areq, aset, acalls, aerr, onchain>>
    /\ UNCHANGED <<varsU, varsV, varsL, varsR, varsW, varsF, varsD, varsE, varsZ>>

\* ensureConcludedBackend: concludeBackend.  A confirmed conclude transaction
\* concludes the channel on the chain of b; a failed one is waited out.
concludeBackend(b) ==
    /\ epc[b] = "conclude"
    /\ \/ /\ epc' = [epc EXCEPT ![b] = "concluding"]
          /\ UNCHANGED <<acalls, onchain>>
       \/ \E o \in CallOutcomes :
             LET txType == IF areq.final /\ onchain[b] # "ForceExec"
                           THEN "ConcludeFinal" ELSE "Conclude"
                 res == call(<<b>>, [x \in {b} |-> o], NoCall(txType, <<b>>))
             IN  /\ o = "confirmed" => onchain[b] # "Concluded"
                 /\ acalls' = acalls \cup {res}
                 /\ onchain' = IF o = "confirmed"
                               THEN [onchain EXCEPT ![b] = "Concluded"]
                               ELSE onchain
                 /\ epc' = [epc EXCEPT ![b] =
                              IF res.err = "nil" \/ IsErrTxFailed(res.err)
                              THEN "wait" ELSE "concluding"]
    /\ UNCHANGED <<backends, areq, aset, aerr, eseen>>
    /\ UNCHANGED <<varsU, varsV, varsL, varsR, varsW, varsF, varsD, varsE, varsZ>>

\* ensureConcludedBackend: the loop that waits for the Concluded event, the end
\* of the context or the end of the subscription.
WaitConcluded(b) ==
    /\ epc[b] = "wait"
    /\ \/ ReturnOnEvent(b, onchain[b])
       \/ \E e \in {"context cancelled", "subscription error"} :
             /\ epc' = [epc EXCEPT ![b] = e]
             /\ UNCHANGED eseen
    /\ UNCHANGED <<backends, areq, aset, acalls, aerr, onchain>>
    /\ UNCHANGED <<varsU, varsV, varsL, varsR, varsW, varsF, varsD, varsE, varsZ>>

\* ensureConcluded: errg.Wait() returns once every ensureConcludedBackend has,
\* with the gathered errors if there are any.
Wait ==
    /\ areq.kind = "Withdraw"
    /\ aerr = "running"
    /\ \A b \in aset : epc[b] \in EnsureErrors \cup {"nil"}
    /\ aerr' = IF \A b \in aset : epc[b] = "nil" THEN "nil" ELSE "gathered errors"
    /\ UNCHANGED <<backends, areq, aset, acalls, epc, eseen, onchain>>
    /\ UNCHANGED <<varsU, varsV, varsL, varsR, varsW, varsF, varsD, varsE, varsZ>>

NextA ==
    \/ \E id \in ChainIDs : RegisterBackend(id)
    \/ \E b \in ChainIDs : ChainAdvance(b)
    \/ callRegister
    \/ Progress
    \/ ensureConcluded
    \/ \E b \in ChainIDs : Subscribe(b)
    \/ \E b \in ChainIDs : waitConcludedSecondary(b)
    \/ \E b \in ChainIDs : concludeBackend(b)
    \/ \E b \in ChainIDs : WaitConcluded(b)
    \/ Wait

\* ------------------------------------------------- multi-asset funder
\* An asset is modelled by its chain ID as above; F1 and F2 are the funders.
\* Funder.fundersForAssets: the funders registered (reg) for the assets, each
\* once, or the error for the first asset without a funder.
fundersForAssets(reg, assets) ==
    IF \E i \in DOMAIN assets : reg[assets[i]] = "none"
    THEN [err |-> "could not find funder for asset", funders |-> {}]
    ELSE [err |-> "nil", funders |-> { reg[assets[i]] : i \in DOMAIN assets }]

InitF ==
    /\ ffunders = [a \in ChainIDs |-> "none"]
    /\ freq = <<>>
    /\ flist = <<>>
    /\ fgo = <<>>
    /\ fret = "none"

\* Funder.RegisterAsset(a, af), before the funding request.
RegisterAsset(a, af) ==
    /\ fret = "none"
    /\ ffunders[a] = "none"
    /\ ffunders' = [ffunders EXCEPT ![a] = af]
    /\ UNCHANGED <<freq, flist, fgo, fret>>
    /\ UNCHANGED <<varsU, varsV, varsL, varsR, varsW, varsA, varsD, varsE, varsZ>>

\* Funder.Fund up to the launch of one routine per funder of the list.
Fund ==
    /\ fret = "none"
    /\ \E assets \in AssetLists :
          LET r == fundersForAssets(ffunders, assets)
          IN  /\ freq' = assets
              /\ IF r.err # "nil"
                 THEN /\ fret' = r.err
                      /\ UNCHANGED <<flist, fgo>>
                 ELSE /\ fret' = "running"
                      /\ \E l \in List(r.funders) :
                            /\ flist' = l
                            /\ fgo' = [i \in DOMAIN l |->
                                         [f |-> "none", res |-> "running"]]
    /\ UNCHANGED ffunders
    /\ UNCHANGED <<varsU, varsV, varsL, varsR, varsW, varsA, varsD, varsE, varsZ>>

\* The i-th routine launched by Fund runs func() error { return subf.Fund(ctx,
\* req) }.  subf is the variable of the range loop, which the routine reads
\* when it runs: it holds the funder of iteration i or, the loop having moved
\* on, of a later one.  The funder's Fund returns nil or an error.
FunderFund(i) ==
    /\ fret = "running"
    /\ i \in DOMAIN fgo
    /\ fgo[i].res = "running"
    /\ \E j \in i .. Len(flist), res \in {"nil", "error"} :
          fgo' = [fgo EXCEPT ![i] = [f |-> flist[j], res |-> res]]
    /\ UNCHANGED <<ffunders, freq, flist, fret>>
    /\ UNCHANGED <<varsU, varsV, varsL, varsR, varsW, varsA, varsD, varsE, varsZ>>

\* Fund returns: g.WaitDoneOrFailedCtx(ctx) ends when all routines returned or
\* one failed, and then g.Err() is returned, or when the context ends.
FundReturn ==
    /\ fret = "running"
    /\ \/ /\ \/ \A i \in DOMAIN fgo : fgo[i].res # "running"
             \/ \E i \in DOMAIN fgo : fgo[i].res = "error"
          /\ fret' = IF \E i \in DOMAIN fgo : fgo[i].res = "error"
                     THEN "error" ELSE "nil"
       \/ fret' = "context ended"
    /\ UNCHANGED <<ffunders, freq, flist, fgo>>
    /\ UNCHANGED <<varsU, varsV, varsL, varsR, varsW, varsA, varsD, varsE, varsZ>>

NextF ==
    \/ \E a \in ChainIDs, af \in {"F1", "F2"} : RegisterAsset(a, af)
    \/ Fund
    \/ \E i \in 1 .. MaxAssets : FunderFund(i)
    \/ FundReturn

\* ---------------------------------------------------------- serialization
uint16MaxValue == 65535

\* A byte slice or string is modelled by its length and the value of its
\* bytes, all equal: n times the byte b.
Bytes(n, b) == [len |-> n, fill |-> IF n = 0 THEN 0 ELSE b]

\* The byte slices that occur: lengths around the limits of the length field.
ByteSlices ==
    { Bytes(n, b) : n \in {0, 1, 2, 255, 256, uint16MaxValue, uint16MaxValue + 1,
                           uint16MaxValue + 2},
                    b \in {0, 1, 255} }

\* The wire addresses that occur: a name, and a public key or none ("nil").
Addresses == [name : ByteSlices, key : {"nil", "K1", "K2"}]

\* encodeBytes: the length as uint16, then the bytes.
encodeBytes(v) ==
    IF v.len < 0 \/ v.len > uint16MaxValue
    THEN [err |-> "invalid length", l |-> 0, data |-> Bytes(0, 0)]
    ELSE [err |-> "nil", l |-> v.len % (uint16MaxValue + 1), data |-> v]

\* decodeBytes into a target holding v: the length is read, and when it is
\* positive a new slice of that length is read into the target.
decodeBytes(r, v) ==
    IF r.l > 0
    THEN IF r.data.len >= r.l
         THEN [err |-> "nil", v |-> Bytes(r.l, r.data.fill)]
         ELSE [err |-> "unexpected EOF", v |-> Bytes(r.l, r.data.fill)]
    ELSE [err |-> "nil", v |-> v]

\* Address.MarshalBinary: uint16(len(a.Name)), the name, and the public key
\* when there is one.
MarshalBinary(a) ==
    [err |-> "nil", l |-> a.name.len % (uint16MaxValue + 1), name |-> a.name,
     key |-> a.key]

\* Address.UnmarshalBinary of data into the address a: the name is the first l
\* bytes; when bytes remain, a public key is decoded from them, from the rest
\* of the name if the length field did not cover it.
UnmarshalBinary(a, data) ==
    [name |-> Bytes(data.l, data.name.fill),
     key  |-> IF data.name.len > data.l THEN "decoded from the name"
              ELSE IF data.key # "nil" THEN data.key
              ELSE a.key]

InitE ==
    /\ ekind = "none"
    /\ ein = Bytes(0, 0)
    /\ etarget = Bytes(0, 0)
    /\ eenc = "none"
    /\ eout = Bytes(0, 0)

\* encodeBytes of a slice, and decodeBytes of the result into a target.
EncodeDecodeBytes ==
    /\ ekind = "none"
    /\ \E v, tgt \in ByteSlices :
          LET e == encodeBytes(v)
          IN  /\ ekind' = "bytes"
              /\ ein' = v
              /\ etarget' = tgt
              /\ eenc' = e.err
              /\ eout' = IF e.err = "nil" THEN decodeBytes(e, tgt).v ELSE tgt
    /\ UNCHANGED <<varsU, varsV, varsL, varsR, varsW, varsA, varsF, varsD, varsZ>>

\* MarshalBinary of an address, and UnmarshalBinary of the result into an
\* address.
MarshalUnmarshal ==
    /\ ekind = "none"
    /\ \E a, tgt \in Addresses :
          /\ ekind' = "address"
          /\ ein' = a
          /\ etarget' = tgt
          /\ eenc' = MarshalBinary(a).err
          /\ eout' = UnmarshalBinary(tgt, MarshalBinary(a))
    /\ UNCHANGED <<varsU, varsV, varsL, varsR, varsW, varsA, varsF, varsD, varsZ>>

NextE == EncodeDecodeBytes \/ MarshalUnmarshal

\* ------------------------------------------------------- the state watcher
\* The handlers that call Await on one state watcher, each once; the id that
\* nextID hands to a handler is the handler's number.
Waiters == {1, 2, 3}

\* The states a handler may pass to Await.
WatchedStates == {"s", "t"}

\* The condition function of the watcher: the two states belong together.
condition(a, b) == a = b

Pairs == { pr \in SUBSET Waiters : Cardinality(pr) = 2 }

\* A register that leaves the matched entry in the map.
keepEntry(ents, k) == ents

\* delete(w.entries, k) in register after the condition was found true.
deleteEntry(ents, k) == ents \ {k}

InitS ==
    /\ swState = [i \in Waiters |-> "s"]
    /\ swEntries = {}
    /\ swDone = [i \in Waiters |-> 0]
    /\ swPc = [i \in Waiters |-> "idle"]
    /\ swRet = [i \in Waiters |-> "none"]
    /\ swPairs = {}
    /\ swEvals = [pr \in Pairs |-> 0]

\* register(id, state, done) under the watcher's lock: the entries are visited
\* in the order of the map iteration; at the first entry k on which the
\* condition holds, both match channels get a token, k is deleted and the new
\* entry is not inserted; when no entry matches, the new entry is inserted.
swRegister(id, state) ==
    LET matching == { k \in swEntries : condition(state, swState[k]) }
    IN  IF matching = {}
        THEN /\ swEvals' = [pr \in Pairs |->
                              IF id \in pr /\ pr \cap swEntries # {}
                              THEN swEvals[pr] + 1 ELSE swEvals[pr]]
             /\ swEntries' = swEntries \cup {id}
             /\ UNCHANGED <<swDone, swPairs>>
        ELSE \E k \in matching, visited \in SUBSET (swEntries \ matching) :
                /\ swEvals' = [pr \in Pairs |->
                                 IF id \in pr /\ pr \cap (visited \cup {k}) # {}
                                 THEN swEvals[pr] + 1 ELSE swEvals[pr]]
                /\ swDone' = [swDone EXCEPT ![id] = @ + 1, ![k] = @ + 1]
                /\ swEntries' = deleteEntry(swEntries, k)
                /\ swPairs' = swPairs \cup {{id, k}}

\* Await up to the select: make the match channel, take an id and register.
Await(i) ==
    /\ swPc[i] = "idle"
    /\ \E state \in WatchedStates :
          /\ swState' = [swState EXCEPT ![i] = state]
          /\ swRegister(i, state)
    /\ swPc' = [swPc EXCEPT ![i] = "select"]
    /\ UNCHANGED swRet
    /\ UNCHANGED <<varsOld, varsB, varsG, varsN, varsT>>

\* The select in Await takes the case of the match channel.
SelectMatch(i) ==
    /\ swPc[i] = "select" /\ swDone[i] > 0
    /\ swDone' = [swDone EXCEPT ![i] = @ - 1]
    /\ swRet' = [swRet EXCEPT ![i] = "nil"]
    /\ swPc' = [swPc EXCEPT ![i] = "deregister"]
    /\ UNCHANGED <<swState, swEntries, swPairs, swEvals>>
    /\ UNCHANGED <<varsOld, varsB, varsG, varsN, varsT>>

\* The select in Await takes the case of the context, which may be done at any
\* time, also when the match channel holds a token.
SelectCtxDone(i) ==
    /\ swPc[i] = "select"
    /\ swRet' = [swRet EXCEPT ![i] = "ctx"]
    /\ swPc' = [swPc EXCEPT ![i] = "deregister"]
    /\ UNCHANGED <<swState, swEntries, swDone, swPairs, swEvals>>
    /\ UNCHANGED <<varsOld, varsB, varsG, varsN, varsT>>

\* The deferred deregister(id) under the watcher's lock; then Await returns.
swDeregister(i) ==
    /\ swPc[i] = "deregister"
    /\ swEntries' = swEntries \ {i}
    /\ swPc' = [swPc EXCEPT ![i] = "returned"]
    /\ UNCHANGED <<swState, swDone, swRet, swPairs, swEvals>>
    /\ UNCHANGED <<varsOld, varsB, varsG, varsN, varsT>>

NextS ==
    \E i \in Waiters :
        \/ Await(i)
        \/ SelectMatch(i)
        \/ SelectCtxDone(i)
        \/ swDeregister(i)

\* ------------------------------------------- the backend event subscription
\* The number of chain events that arrive on one subscription.
MaxEvents == 3

\* The phases an AdjudicatorChannelUpdate event of the subscription carries.
EventPhases == {"Registered", "Progressed", "Concluded"}

\* An AdjChannelUpdate event of the chain, by its version, its timeout and
\* its phase.
ChainEvent(v, timeout, ph) == [version |-> v, timeout |-> timeout, phase |-> ph]
NoChainEvent == ChainEvent(-1, -1, "none")
ChainEvents ==
    { ChainEvent(v, timeout, ph) : v \in 0 .. 1, timeout \in 0 .. 1, ph \in EventPhases }

\* A comparison that replaces the queued event also for an equal version with
\* an earlier or equal timeout.
NewerOrSameVersion(current, next) == current.version <= next.version

\* processNext: "if newer version or same version and newer timeout, replace".
Newer(current, next) ==
    \/ current.version < next.version
    \/ current.version = next.version /\ current.timeout < next.timeout

InitB ==
    /\ bnext = <<>>
    /\ bpc = "select"
    /\ bcur = NoChainEvent
    /\ bnew = NoChainEvent
    /\ blast = [current |-> NoChainEvent, next |-> NoChainEvent]
    /\ bcount = 0
    /\ bother = FALSE
    /\ bgot = FALSE
    /\ bnil = FALSE

\* updateNext receives a chain event and calls processNext, whose select takes
\* the queued event out of r.next or finds r.next empty.  Concluded is the
\* last phase of a channel on a chain: no event follows a Concluded event.
ProcessNextDrain ==
    /\ bpc = "select" /\ bcount < MaxEvents
    /\ bnew.phase # "Concluded"
    /\ \E e \in ChainEvents : bnew' = e
    /\ bcount' = bcount + 1
    /\ IF bnext # <<>>
       THEN bcur' = Head(bnext) /\ bnext' = Tail(bnext)
       ELSE bcur' = NoChainEvent /\ bnext' = bnext
    /\ bpc' = "process"
    /\ UNCHANGED <<blast, bother, bgot, bnil>>
    /\ UNCHANGED <<varsOld, varsS, varsG, varsN, varsT>>

\* processNext goes on: the new event is converted and sent to r.next when
\* r.next was empty or the new event is newer, else the old one is sent back.
\* When convertEvent fails, processNext returns the error; updateNext passes it
\* on, empties r.next and closes it.
ProcessNextPut ==
    /\ bpc = "process"
    /\ \E convertOk \in BOOLEAN :
          IF bcur = NoChainEvent \/ Newer(bcur, bnew)
          THEN IF convertOk
               THEN /\ Len(bnext) < 1
                    /\ bnext' = Append(bnext, bnew)
                    /\ bpc' = "select"
                    /\ blast' = [current |-> bcur, next |-> bnew]
               ELSE /\ bnext' = <<>>
                    /\ bpc' = "closed"
                    /\ blast' = blast
          ELSE /\ Len(bnext) < 1
               /\ bnext' = Append(bnext, bcur)
               /\ bpc' = "select"
               /\ blast' = [current |-> bcur, next |-> bnew]
    /\ UNCHANGED <<bcur, bnew, bcount, bother, bgot, bnil>>
    /\ UNCHANGED <<varsOld, varsS, varsG, varsN, varsT>>

\* AdjudicatorSub.Next: reflect.Select receives the queued event from the
\* channel next of the backend's subscription and returns it.
SubNext ==
    /\ bnext # <<>>
    /\ bnext' = Tail(bnext)
    /\ bgot' = (bgot \/ Head(bnext).phase = "Concluded")
    /\ UNCHANGED <<bpc, bcur, bnew, blast, bcount, bother, bnil>>
    /\ UNCHANGED <<varsOld, varsS, varsG, varsN, varsT>>

\* AdjudicatorSub.Next: reflect.Select receives from a closed channel next,
\* of this or of the other backend's subscription, and Next returns nil.
SubNextNil ==
    /\ bother \/ bpc = "closed"
    /\ bnil' = TRUE
    /\ UNCHANGED <<bnext, bpc, bcur, bnew, blast, bcount, bother, bgot>>
    /\ UNCHANGED <<varsOld, varsS, varsG, varsN, varsT>>

\* The subscription of the other backend ends and closes its channel next.
OtherSubClosed ==
    /\ ~bother
    /\ bother' = TRUE
    /\ UNCHANGED <<bnext, bpc, bcur, bnew, blast, bcount, bgot, bnil>>
    /\ UNCHANGED <<varsOld, varsS, varsG, varsN, varsT>>

\* The event subscription ends: updateNext empties r.next and closes it.
SubClosed ==
    /\ bpc = "select"
    /\ bnext' = <<>>
    /\ bpc' = "closed"
    /\ UNCHANGED <<bcur, bnew, blast, bcount, bother, bgot, bnil>>
    /\ UNCHANGED <<varsOld, varsS, varsG, varsN, varsT>>

NextB ==
    \/ ProcessNextDrain
    \/ ProcessNextPut
    \/ SubNext
    \/ SubNextNil
    \/ OtherSubClosed
    \/ SubClosed

\* ------------------------------------------------------- Channel.Register
\* The channel tree in the order of tryLockRecursive and of
\* applyToSubChannelsRecursive: the root, its sub-channel, and the
\* sub-channel of that.
Tree == <<"root", "sub", "leaf">>

\* c.parent of a channel of the tree ("none" for the root).
Parent(ch) == IF ch = "leaf" THEN "sub" ELSE IF ch = "sub" THEN "root" ELSE "none"

\* A Register that registers the tree below the channel it is called on.
RegisterSelf(ch) == ch

\* The channel Register acts on when called on ch: "if c.parent != nil
\* { return c.parent.Register(ctx) }".
RECURSIVE RegisterRoot(_)
RegisterRoot(ch) == IF Parent(ch) # "none" THEN RegisterRoot(Parent(ch)) ELSE ch

\* The position in Tree at which the traversals of Register called on ch start.
First(ch) == CHOOSE i \in DOMAIN Tree : Tree[i] = RegisterRoot(ch)

TreeChans == {"root", "sub", "leaf"}

\* A tryLockRecursive that enters the mutex in the list before it is locked.
appendAlways(l, m, locked) == Append(l, m)

\* f in tryLockRecursive: the mutex is appended to l when TryLockCtx got it.
appendLocked(l, m, locked) == IF locked THEN Append(l, m) ELSE l

\* mutexList.Unlock on the mutexes: each mutex of the list is unlocked, whoever
\* holds it.
mutexListUnlock(held, l) ==
    [ch \in DOMAIN held |-> IF \E i \in DOMAIN l : l[i] = ch THEN "free" ELSE held[ch]]

InitG ==
    /\ gmtx = [ch \in TreeChans |-> "free"]
    /\ gphase = [ch \in TreeChans |-> "Acting"]
    /\ gpresent = TreeChans
    /\ gctx = FALSE
    /\ gpc = "idle"
    /\ gidx = 1
    /\ glist = <<>>
    /\ gacq = {}
    /\ gunl = <<>>
    /\ gset = {}
    /\ gret = "none"
    /\ gcalled = "root"
    /\ gsubs = {}

\* Register fails with err: the error is returned after the deferred
\* l.Unlock() has run.
RegisterFail(err) ==
    /\ gpc' = "unlock"
    /\ gret' = err

\* Another task locks or unlocks the machine mutex of a channel.
OtherLock(ch) ==
    /\ gmtx[ch] = "free"
    /\ gmtx' = [gmtx EXCEPT ![ch] = "other"]
    /\ UNCHANGED <<gphase, gpresent, gctx, gpc, gidx, glist, gacq, gunl, gset, gret, gcalled, gsubs>>
    /\ UNCHANGED <<varsOld, varsS, varsB, varsN, varsT>>

OtherUnlock(ch) ==
    /\ gmtx[ch] = "other"
    /\ gmtx' = [gmtx EXCEPT ![ch] = "free"]
    /\ UNCHANGED <<gphase, gpresent, gctx, gpc, gidx, glist, gacq, gunl, gset, gret, gcalled, gsubs>>
    /\ UNCHANGED <<varsOld, varsS, varsB, varsN, varsT>>

\* A sub-channel leaves the client's registry.
ChannelRemoved(ch) ==
    /\ ch # "root" /\ ch \in gpresent
    /\ gpresent' = gpresent \ {ch}
    /\ UNCHANGED <<gmtx, gphase, gctx, gpc, gidx, glist, gacq, gunl, gset, gret, gcalled, gsubs>>
    /\ UNCHANGED <<varsOld, varsS, varsB, varsN, varsT>>

\* The context given to Register ends.
RegisterCtxDone ==
    /\ ~gctx /\ gpc \notin {"idle", "returned"}
    /\ gctx' = TRUE
    /\ UNCHANGED <<gmtx, gphase, gpresent, gpc, gidx, glist, gacq, gunl, gset, gret, gcalled, gsubs>>
    /\ UNCHANGED <<varsOld, varsS, varsB, varsN, varsT>>

\* Register is called on a channel of the tree and goes up to the root.
RegisterStart ==
    /\ gpc = "idle"
    /\ \E ch \in TreeChans : gcalled' = ch /\ gidx' = First(ch)
    /\ gpc' = "lock"
    /\ UNCHANGED <<gmtx, gphase, gpresent, gctx, glist, gacq, gunl, gset, gret, gsubs>>
    /\ UNCHANGED <<varsOld, varsS, varsB, varsN, varsT>>

\* The end of a traversal that started at position gidx: the last channel was
\* visited.
LastOfTree == gidx = Len(Tree)

\* tryLockRecursive at the channel of position gidx: the sub-channel is looked
\* up; TryLockCtx gets the mutex when it is free, and returns false when the
\* context has ended.
tryLockRecursive ==
    /\ gpc = "lock"
    /\ LET ch == Tree[gidx]
       IN  IF ch \notin gpresent
           THEN /\ RegisterFail("locking recursive")
                /\ UNCHANGED <<gmtx, glist, gacq, gidx>>
           ELSE \E locked \in BOOLEAN :
                   /\ locked => gmtx[ch] = "free"
                   /\ ~locked => gctx
                   /\ glist' = appendLocked(glist, ch, locked)
                   /\ IF locked
                      THEN /\ gmtx' = [gmtx EXCEPT ![ch] = "register"]
                           /\ gacq' = gacq \cup {ch}
                           /\ gidx' = IF LastOfTree THEN First(gcalled) ELSE gidx + 1
                           /\ gpc' = IF LastOfTree THEN "registering" ELSE "lock"
                           /\ gret' = gret
                      ELSE /\ RegisterFail("locking recursive")
                           /\ UNCHANGED <<gmtx, gacq, gidx>>
    /\ UNCHANGED <<gphase, gpresent, gctx, gunl, gset, gcalled, gsubs>>
    /\ UNCHANGED <<varsOld, varsS, varsB, varsN, varsT>>

\* setRegisteringRecursive at the channel of position gidx: the sub-channel is
\* looked up and machine.SetRegistering is called, which may fail.
setRegisteringRecursive ==
    /\ gpc = "registering"
    /\ LET ch == Tree[gidx]
       IN  IF ch \notin gpresent
           THEN /\ RegisterFail("setting phase Registering recursive")
                /\ UNCHANGED <<gphase, gset, gidx>>
           ELSE \E ok \in BOOLEAN :
                   IF ok
                   THEN /\ gphase' = [gphase EXCEPT ![ch] = "Registering"]
                        /\ gset' = gset \cup {ch}
                        /\ gidx' = IF LastOfTree THEN First(gcalled) ELSE gidx + 1
                        /\ gpc' = IF LastOfTree THEN "adjudicate" ELSE "registering"
                        /\ gret' = gret
                   ELSE /\ RegisterFail("setting phase Registering recursive")
                        /\ UNCHANGED <<gphase, gset, gidx>>
    /\ UNCHANGED <<gmtx, gpresent, gctx, glist, gacq, gunl, gcalled, gsubs>>
    /\ UNCHANGED <<varsOld, varsS, varsB, varsN, varsT>>

\* gatherSubChannelStates and the call of the adjudicator's Register.
adjudicatorRegister ==
    /\ gpc = "adjudicate"
    /\ LET below == { Tree[i] : i \in { j \in DOMAIN Tree : j > First(gcalled) } }
       IN  IF \E ch \in below : ch \notin gpresent
           THEN RegisterFail("gathering sub-channel states") /\ gsubs' = gsubs
           ELSE /\ gsubs' = below
                /\ \E ok \in BOOLEAN :
                      IF ok
                      THEN gpc' = "registered" /\ gret' = gret
                      ELSE RegisterFail("calling Register")
    /\ UNCHANGED <<gmtx, gphase, gpresent, gctx, gidx, glist, gacq, gunl, gset, gcalled>>
    /\ UNCHANGED <<varsOld, varsS, varsB, varsN, varsT>>

\* setRegisteredRecursive at the channel of position gidx; after the last
\* channel Register returns nil.
setRegisteredRecursive ==
    /\ gpc = "registered"
    /\ LET ch == Tree[gidx]
       IN  IF ch \notin gpresent
           THEN /\ RegisterFail("setting phase Registered recursive")
                /\ UNCHANGED <<gphase, gidx>>
           ELSE \E ok \in BOOLEAN :
                   IF ok
                   THEN /\ gphase' = [gphase EXCEPT ![ch] = "Registered"]
                        /\ gidx' = IF LastOfTree THEN First(gcalled) ELSE gidx + 1
                        /\ gpc' = IF LastOfTree THEN "unlock" ELSE "registered"
                        /\ gret' = IF LastOfTree THEN "nil" ELSE gret
                   ELSE /\ RegisterFail("setting phase Registered recursive")
                        /\ UNCHANGED <<gphase, gidx>>
    /\ UNCHANGED <<gmtx, gpresent, gctx, glist, gacq, gunl, gset, gcalled, gsubs>>
    /\ UNCHANGED <<varsOld, varsS, varsB, varsN, varsT>>

\* The deferred l.Unlock() runs and Register returns.
RegisterReturn ==
    /\ gpc = "unlock"
    /\ gmtx' = mutexListUnlock(gmtx, glist)
    /\ gunl' = glist
    /\ gpc' = "returned"
    /\ UNCHANGED <<gphase, gpresent, gctx, gidx, glist, gacq, gset, gret, gcalled, gsubs>>
    /\ UNCHANGED <<varsOld, varsS, varsB, varsN, varsT>>

NextG ==
    \/ \E ch \in TreeChans : OtherLock(ch) \/ OtherUnlock(ch) \/ ChannelRemoved(ch)
    \/ RegisterCtxDone
    \/ RegisterStart
    \/ tryLockRecursive
    \/ setRegisteringRecursive
    \/ adjudicatorRegister
    \/ setRegisteredRecursive
    \/ RegisterReturn

\* ------------------------------------- the wait of the secondary party
\* const secondaryWaitBlocks.
secondaryWaitBlocks == 2

\* The largest txFinalityDepth of a backend considered.
MaxFinalityDepth == 1

\* The largest number of events the chain emits during one wait.
MaxWaitEvents == 2

WaitReq(final, secondary, depth) ==
    [final |-> final, secondary |-> secondary, txFinalityDepth |-> depth]

NoWaitReq == WaitReq(FALSE, FALSE, 0)

\* waitConcludedSecondary: waitBlocks of a request.
waitBlocks(req) == secondaryWaitBlocks + req.txFinalityDepth

\* The loop of waitConcludedForNBlocks goes on after an event of a phase
\* other than Concluded: the select is left and i++ runs.
NextIteration(i) == i + 1

InitN ==
    /\ nreq = NoWaitReq
    /\ npc = "idle"
    /\ ni = 0
    /\ nheaders = 0
    /\ nconcluded = <<>>
    /\ nemitted = 0
    /\ nret = "none"

\* waitConcludedSecondary(ctx, req, events) up to the loop of
\* waitConcludedForNBlocks: SubscribeNewHead may fail.
waitConcludedSecondaryStart ==
    /\ npc = "idle"
    /\ \E final, secondary \in BOOLEAN, depth \in 0 .. MaxFinalityDepth :
          /\ nreq' = WaitReq(final, secondary, depth)
          /\ IF final /\ secondary
             THEN \/ npc' = "loop" /\ nret' = nret
                  \/ npc' = "returned" /\ nret' = "subscribing to new blocks"
             ELSE npc' = "returned" /\ nret' = "false"
    /\ UNCHANGED <<ni, nheaders, nconcluded, nemitted>>
    /\ UNCHANGED <<varsOld, varsS, varsB, varsG, varsT>>

\* The subscription's reader puts an event of the channel into events.
EventArrives(ph) ==
    /\ npc = "loop"
    /\ nemitted < MaxWaitEvents
    /\ nemitted' = nemitted + 1
    /\ nconcluded' = Append(nconcluded, ph)
    /\ UNCHANGED <<nreq, npc, ni, nheaders, nret>>
    /\ UNCHANGED <<varsOld, varsS, varsB, varsG, varsT>>

\* The loop condition i < numBlocks fails: return false, nil.
LoopDone ==
    /\ npc = "loop"
    /\ ~(ni < waitBlocks(nreq))
    /\ npc' = "returned"
    /\ nret' = "false"
    /\ UNCHANGED <<nreq, ni, nheaders, nconcluded, nemitted>>
    /\ UNCHANGED <<varsOld, varsS, varsB, varsG, varsT>>

\* case <-h: a new block header.
SelectHeader ==
    /\ npc = "loop"
    /\ ni < waitBlocks(nreq)
    /\ nheaders' = nheaders + 1
    /\ ni' = ni + 1
    /\ UNCHANGED <<nreq, npc, nconcluded, nemitted, nret>>
    /\ UNCHANGED <<varsOld, varsS, varsB, varsG, varsT>>

\* case _e := <-concluded: an event of the channel.
SelectEvent ==
    /\ npc = "loop"
    /\ ni < waitBlocks(nreq)
    /\ nconcluded # <<>>
    /\ nconcluded' = Tail(nconcluded)
    /\ IF phaseConcluded(Head(nconcluded))
       THEN /\ npc' = "returned"
            /\ nret' = "true"
            /\ ni' = ni
       ELSE /\ ni' = NextIteration(ni)
            /\ UNCHANGED <<npc, nret>>
    /\ UNCHANGED <<nreq, nheaders, nemitted>>
    /\ UNCHANGED <<varsOld, varsS, varsB, varsG, varsT>>

\* case <-ctx.Done() and case err = <-hsub.Err().
SelectError ==
    /\ npc = "loop"
    /\ ni < waitBlocks(nreq)
    /\ npc' = "returned"
    /\ \E e \in {"context cancelled", "header subscription error"} : nret' = e
    /\ UNCHANGED <<nreq, ni, nheaders, nconcluded, nemitted>>
    /\ UNCHANGED <<varsOld, varsS, varsB, varsG, varsT>>

NextN ==
    \/ waitConcludedSecondaryStart
    \/ \E ph \in EventPhases : EventArrives(ph)
    \/ LoopDone
    \/ SelectHeader
    \/ SelectEvent
    \/ SelectError

\* ---------------------------------------- Settle next to Register on a tree
\* A ledger channel ("parent") whose state locks funds for one sub-channel or
\* virtual channel ("child").  Settle is called on the parent (a ledger
\* channel) or on the child; Register is called on the parent.
SettleKinds == {"ledger", "sub", "virtual"}

\* The channel Settle is called on.
SettleChan(kind) == IF kind = "ledger" THEN "parent" ELSE "child"

\* machine.SetWithdrawing: the phases from which Withdrawing is entered.
WithdrawingFrom == {"Final", "Registered", "Progressed", "Withdrawing"}

\* defer c.machMtx.Unlock() and mutexList.Unlock: free the mutexes of task t.
UnlockAll(held, t) == [ch \in DOMAIN held |-> IF held[ch] = t THEN "free" ELSE held[ch]]

InitT ==
    /\ tmtx = [ch \in {"parent", "child"} |-> "free"]
    /\ tphase = [ch \in {"parent", "child"} |-> IF ch = "parent" THEN "Acting" ELSE "Final"]
    /\ tpc = [t \in {"settle", "register"} |-> "idle"]
    /\ tkind = "none"
    /\ tlocked = FALSE
    /\ tbefore = "none"
    /\ tret = [t \in {"settle", "register"} |-> "none"]

\* Task t returns err; its deferred unlock frees the mutexes it holds.
TaskReturn(t, err) ==
    /\ tpc' = [tpc EXCEPT ![t] = "returned"]
    /\ tret' = [tret EXCEPT ![t] = err]
    /\ tmtx' = UnlockAll(tmtx, t)

\* SettleWithSubchannels is called on a channel of type kind.
SettleCall ==
    /\ tpc["settle"] = "idle"
    /\ \E kind \in SettleKinds, locked \in BOOLEAN :
          /\ tkind' = kind
          /\ tlocked' = locked
    /\ tpc' = [tpc EXCEPT !["settle"] = "lock"]
    /\ UNCHANGED <<tmtx, tphase, tbefore, tret>>
    /\ UNCHANGED <<varsOld, varsS, varsB, varsG, varsN>>

\* c.machMtx.TryLockCtx(ctx) succeeds, then c.machine.SetWithdrawing(ctx).
SettleLock ==
    /\ tpc["settle"] = "lock"
    /\ tmtx[SettleChan(tkind)] = "free"
    /\ tbefore' = tphase[SettleChan(tkind)]
    /\ IF tphase[SettleChan(tkind)] \in WithdrawingFrom
       THEN /\ tphase' = [tphase EXCEPT ![SettleChan(tkind)] = "Withdrawing"]
            /\ tmtx' = [tmtx EXCEPT ![SettleChan(tkind)] = "settle"]
            /\ tpc' = [tpc EXCEPT !["settle"] = "switch"]
            /\ UNCHANGED tret
       ELSE /\ TaskReturn("settle", "setting machine to withdrawing phase")
            /\ UNCHANGED tphase
    /\ UNCHANGED <<tkind, tlocked>>
    /\ UNCHANGED <<varsOld, varsS, varsB, varsG, varsN>>

\* c.machMtx.TryLockCtx(ctx) returns false: the context ended while another
\* task held the mutex.
SettleLockTimeout ==
    /\ tpc["settle"] = "lock"
    /\ tmtx[SettleChan(tkind)] # "free"
    /\ TaskReturn("settle", "locking machine")
    /\ UNCHANGED <<tphase, tkind, tlocked, tbefore>>
    /\ UNCHANGED <<varsOld, varsS, varsB, varsG, varsN>>

\* The switch on the channel type: a ledger channel is withdrawn by the
\* adjudicator, a sub-channel or virtual channel without locked funds goes on
\* to its parent.
SettleSwitch ==
    /\ tpc["settle"] = "switch"
    /\ IF tkind = "ledger"
       THEN \/ /\ TaskReturn("settle", "calling Withdraw")
               /\ UNCHANGED tphase
            \/ /\ TaskReturn("settle", "nil")
               /\ tphase' = [tphase EXCEPT !["parent"] = "Withdrawn"]
       ELSE IF tlocked
       THEN /\ TaskReturn("settle", "cannot settle off-chain with locked funds")
            /\ UNCHANGED tphase
       ELSE /\ tpc' = [tpc EXCEPT !["settle"] = "lockParent"]
            /\ UNCHANGED <<tmtx, tphase, tret>>
    /\ UNCHANGED <<tkind, tlocked, tbefore>>
    /\ UNCHANGED <<varsOld, varsS, varsB, varsG, varsN>>

\* c.parent.withdrawVirtualChannel: the parent's machMtx.TryLockCtx(ctx)
\* succeeds and the settlement update of the parent starts.
withdrawIntoParentLock ==
    /\ tpc["settle"] = "lockParent"
    /\ tmtx["parent"] = "free"
    /\ tmtx' = [tmtx EXCEPT !["parent"] = "settle"]
    /\ tpc' = [tpc EXCEPT !["settle"] = "parentUpdate"]
    /\ UNCHANGED <<tphase, tkind, tlocked, tbefore, tret>>
    /\ UNCHANGED <<varsOld, varsS, varsB, varsG, varsN>>

\* The parent's machMtx.TryLockCtx(ctx) returns false.
withdrawIntoParentLockTimeout ==
    /\ tpc["settle"] = "lockParent"
    /\ tmtx["parent"] # "free"
    /\ TaskReturn("settle", "withdrawing into parent channel")
    /\ UNCHANGED <<tphase, tkind, tlocked, tbefore>>
    /\ UNCHANGED <<varsOld, varsS, varsB, varsG, varsN>>

\* The settlement update of the parent ends; after a successful one
\* c.machine.SetWithdrawn(ctx) is called and Settle returns nil.
withdrawIntoParentDone ==
    /\ tpc["settle"] = "parentUpdate"
    /\ \/ /\ TaskReturn("settle", "withdrawing into parent channel")
          /\ UNCHANGED tphase
       \/ /\ TaskReturn("settle", "nil")
          /\ tphase' = [tphase EXCEPT !["child"] = "Withdrawn"]
    /\ UNCHANGED <<tkind, tlocked, tbefore>>
    /\ UNCHANGED <<varsOld, varsS, varsB, varsG, varsN>>

\* Register on the parent: tryLockRecursive locks the parent's machine.
TreeRegisterLockRoot ==
    /\ tpc["register"] = "idle"
    /\ tmtx["parent"] = "free"
    /\ tmtx' = [tmtx EXCEPT !["parent"] = "register"]
    /\ tpc' = [tpc EXCEPT !["register"] = "lockSub"]
    /\ UNCHANGED <<tphase, tkind, tlocked, tbefore, tret>>
    /\ UNCHANGED <<varsOld, varsS, varsB, varsG, varsN>>

\* tryLockRecursive locks the machine of the child, and Register goes on
\* with setRegisteringRecursive, which may fail.
TreeRegisterLockSub ==
    /\ tpc["register"] = "lockSub"
    /\ tmtx["child"] = "free"
    /\ \/ /\ tmtx' = [tmtx EXCEPT !["child"] = "register"]
          /\ tpc' = [tpc EXCEPT !["register"] = "registering"]
          /\ tphase' = [ch \in DOMAIN tphase |-> "Registering"]
          /\ UNCHANGED tret
       \/ /\ TaskReturn("register", "setting phase Registering recursive")
          /\ UNCHANGED tphase
    /\ UNCHANGED <<tkind, tlocked, tbefore>>
    /\ UNCHANGED <<varsOld, varsS, varsB, varsG, varsN>>

\* A TryLockCtx of tryLockRecursive returns false.
TreeRegisterLockTimeout ==
    /\ \/ tpc["register"] = "idle" /\ tmtx["parent"] # "free"
       \/ tpc["register"] = "lockSub" /\ tmtx["child"] # "free"
    /\ TaskReturn("register", "locking recursive")
    /\ UNCHANGED <<tphase, tkind, tlocked, tbefore>>
    /\ UNCHANGED <<varsOld, varsS, varsB, varsG, varsN>>

\* The adjudicator's Register returns; after a successful one
\* setRegisteredRecursive sets the machines to Registered.
TreeRegisterDone ==
    /\ tpc["register"] = "registering"
    /\ \/ /\ TaskReturn("register", "calling Register")
          /\ UNCHANGED tphase
       \/ /\ TaskReturn("register", "nil")
          /\ tphase' = [ch \in DOMAIN tphase |-> "Registered"]
    /\ UNCHANGED <<tkind, tlocked, tbefore>>
    /\ UNCHANGED <<varsOld, varsS, varsB, varsG, varsN>>

\* Settle or Register is called once more after it has returned.
TaskAgain(t) ==
    /\ tpc[t] = "returned"
    /\ tpc' = [tpc EXCEPT ![t] = "idle"]
    /\ tret' = [tret EXCEPT ![t] = "none"]
    /\ UNCHANGED <<tmtx, tphase, tkind, tlocked, tbefore>>
    /\ UNCHANGED <<varsOld, varsS, varsB, varsG, varsN>>

NextT ==
    \/ SettleCall
    \/ SettleLock
    \/ SettleLockTimeout
    \/ SettleSwitch
    \/ withdrawIntoParentLock
    \/ withdrawIntoParentLockTimeout
    \/ withdrawIntoParentDone
    \/ TreeRegisterLockRoot
    \/ TreeRegisterLockSub
    \/ TreeRegisterLockTimeout
    \/ TreeRegisterDone
    \/ \E t \in {"settle", "register"} : TaskAgain(t)

\* ------------------------------------------------------------ specifications
InitX == InitL /\ InitR /\ InitW /\ InitA /\ InitF /\ InitD /\ InitE /\ InitS /\ InitB /\ InitG /\ InitN /\ InitT

Init == InitU /\ InitV /\ InitX

\* The two-party update protocol on one channel.
Spec == Init /\ [][NextU]_vars

\* The virtual-channel funding and settlement protocol over two parents.
SpecVirtual == Init /\ [][NextV]_vars

\* The virtual-channel protocol with a proposer that also sends a settlement
\* proposal over a channel that does not fund V.
SpecVirtualForeign == Init /\ [][NextVForeign]_vars

\* The virtual-channel protocol with proposers that also send funding
\* proposals an honest proposer does not build.
SpecVirtualFaulty == Init /\ [][NextVFaulty]_vars

\* The tasks of a channel and its sub-channel acquiring the machine mutexes.
SpecLock == Init /\ [][NextL]_vars

\* Concurrent calls of Accept and Reject on one update responder.
SpecResponder == Init /\ [][NextR]_vars

\* The watcher of a channel in a dispute.
SpecWatch == Init /\ [][NextW]_vars

\* The dispute under fair scheduling of the watcher and of event delivery.
SpecWatchLive ==
    /\ Init /\ [][NextWLive]_vars
    /\ WF_vars(Deliver) /\ WF_vars(WatchNext({FALSE})) /\ WF_vars(WatchRegister({FALSE}))

\* The adjudicator over several backends: Register, Progress and the conclude
\* step of Withdraw.
SpecAdj == Init /\ [][NextA]_vars

\* The multi-asset funder serving one funding request.
SpecFund == Init /\ [][NextF]_vars

\* The two-party update protocol with a peer that also sends invalid requests.
SpecInvalid == Init /\ [][NextUInvalid]_vars

\* One encoding and decoding of a byte slice or of a wire address.
SpecEncode == Init /\ [][NextE]_vars

\* Handlers awaiting matching states on one state watcher.
SpecStateWatcher == Init /\ [][NextS]_vars

\* The event subscription of one backend and the reader of its events.
SpecSub == Init /\ [][NextB]_vars

\* The subscription with updateNext running whenever it can and a consumer
\* that keeps calling Next; the select of Next picks among the ready channels
\* at random, so a queued event is received eventually.
SpecSubLive ==
    /\ Init /\ [][NextB]_vars
    /\ WF_vars(ProcessNextPut) /\ SF_vars(SubNext)

\* Register on a channel tree, next to another task that locks the machines.
SpecRegister == Init /\ [][NextG]_vars

\* The wait of the secondary party before it concludes a final state.
SpecSecondary == Init /\ [][NextN]_vars

\* Settle on a channel of a tree next to Register on the tree's root.
SpecSettle == Init /\ [][NextT]_vars

\* ------------------------------------------------------------------ claims
\* The states some machine holds, or has held, as current with both signatures.
FullySigned == UNION { { promoted[p][i] : i \in DOMAIN promoted[p] } : p \in Parts }

\* C1: there are never two different states of the same version that both carry
\* the signatures of both participants.
C1_OneSignedStatePerVersion ==
    \A s, t \in FullySigned : s.version = t.version => s = t

C9_NoRollbackAfterSignatureSent == rolledBack = {}

\* C10: every mutation of a machine is made by a task that holds its mutex.
C10_MutationsUnderMutex == \A x \in mutations : x.locked

\* The call of p that returned last left nothing staged and the current state as
\* it was when the call locked the machine.
Restored(p) ==
    /\ ret[p].after.staged = NoState
    /\ ret[p].after.cur = before[p]

\* C7: a call that ends because its context ended returns RequestTimedOutError,
\* and leaves no staged update and the current state and version unchanged.
C7_ContextEndReturnsRequestTimedOut ==
    \A p \in Parts : ret[p].ctx => ret[p].err = "RequestTimedOut" /\ Restored(p)

\* The errors of a call whose proposal the peer rejected or that failed the
\* local validation.
RejectedErrs == {"PeerRejected", "sub-allocation changed", "updating machine"}

\* C8: a call that ends with the peer's rejection or a local validation error
\* leaves nothing staged and the current state unchanged; the rejection carries
\* the peer's reason; and after a rejection an update to the next version can
\* be staged and completed by either party: both peers are in phase Acting with
\* the same current state.
C8_RejectionLeavesChannelUsable ==
    \A p \in Parts :
        /\ ret[p].err \in RejectedErrs => Restored(p)
        /\ ret[p].err = "PeerRejected" =>
              /\ ret[p].reason \in Reasons
              /\ ret[p].after.phase = "Acting"
              /\ ret[p].peer.phase \in {"Acting", "Signing"}
              /\ ret[p].peer.cur = ret[p].after.cur

\* An accept of the proposal of kind k took effect in parent c's machine at Ingrid.
Accepted(k, c) == <<k, c>> \in accepted

C4_AcceptOnlyAfterMatch ==
    \A x \in acceptCalls : x.kind = "fund" => x.matched

\* A run of the virtual protocol has ended: the proposers' calls have returned
\* and Ingrid has nothing left to handle, or has panicked.
Ended ==
    /\ \A c \in Chans : ppc[c] \in {"fundFailed", "settleDone", "settleFailed", "panicked"}
    /\ panicked \/ \A c \in Chans : ipc[c] = "idle" /\ proposals[c] = NoProp

\* C5: when a run has ended, Ingrid has accepted the funding (settlement)
\* update in one parent iff it has accepted it in the other.
C5_BothParentsOrNeither ==
    Ended => \A k \in Kinds : Accepted(k, 1) <=> Accepted(k, 2)

\* The balances the parent of c must hold once V is settled.
SettledBals(c) ==
    LET m == funded[c].indexMap
    IN  BalAdd(BalSub(InitState.bals, transformBalances(funded[c].virtual.bals, 2, m)),
               transformBalances(pvirt[c].bals, 2, m))

\* C6: once the settlement of V is completed in a parent, the parent's balances
\* are those before funding minus the translated initial plus the translated
\* final balances of V, and the sub-allocation is gone; with b0 = [5,5],
\* bF = [2,8] the parent with index map [0,1] holds [7,13], that with [1,0]
\* holds [13,7].
C6_SettlementBalances ==
    \A c \in Chans :
        LET scenario == funded[c].virtual.bals = Bal(5, 5) /\ pvirt[c].bals = Bal(2, 8)
            Right(s) == /\ s.bals = SettledBals(c)
                        /\ ~HasSubAlloc(s, "V")
                        /\ scenario /\ funded[c].indexMap = Bal(0, 1) => s.bals = Bal(7, 13)
                        /\ scenario /\ funded[c].indexMap = Bal(1, 0) => s.bals = Bal(13, 7)
        IN  /\ Accepted("settle", c) => Right(imach[c].cur)
            /\ ppc[c] = "settleDone" => Right(pmach[c].cur)

\* Witness for C6: scenario 3 has run to its end.
W6_Scenario3Settled ==
    /\ \A c \in Chans : Accepted("settle", c) /\ ppc[c] = "settleDone"
    /\ \A c \in Chans : funded[c].virtual.bals = Bal(5, 5) /\ pvirt[c].bals = Bal(2, 8)
    /\ funded[1].indexMap = Bal(0, 1) /\ funded[2].indexMap = Bal(1, 0)
    /\ pmach[1].cur.bals = Bal(7, 13) /\ imach[1].cur.bals = Bal(7, 13)
    /\ pmach[2].cur.bals = Bal(13, 7) /\ imach[2].cur.bals = Bal(13, 7)

C11_NoWaitAfterContextEnd ==
    \A t \in LockTasks : ~(lpc[t] = "wait" /\ lctx[t])

C13_RejectThenReturn ==
    /\ ~panicked
    /\ \A c \in Chans : ipc[c] = "await" => ~called[c]

\* C20: at the intermediary, whenever the current state of a parent channel
\* holds a sub-allocation for V, V is in the channel registry.
C20_RegistryHoldsAllocatedChannels ==
    \A c \in Chans : HasSubAlloc(imach[c].cur, "V") => copy.status = "open"

\* C14: for every RegisteredEvent Watch compares with the local version L: a
\* lower version makes it call Register once, an equal one makes it call
\* nothing, and a higher one is fatal: no Register, no dispatch of the event,
\* and no further event is handled.
C14_WatcherComparesVersions ==
    \A i \in DOMAIN whist :
        LET h == whist[i]
        IN  /\ h.e < h.L => h.registers = 1
            /\ h.e = h.L => h.registers = 0
            /\ h.e > h.L => /\ h.registers = 0 /\ ~h.dispatched
                            /\ i = Len(whist) /\ wpc = "panicked"

\* Witness for C14: Watch has refuted a lower version, passed on the event of
\* its own registration, and panicked on a higher version.
W14_AllThreeCases ==
    /\ Len(whist) = 3 /\ wpc = "panicked"
    /\ whist[1].e < whist[1].L /\ whist[1].registers = 1 /\ whist[1].dispatched
    /\ whist[2].e = whist[2].L /\ whist[2].dispatched
    /\ whist[3].e > whist[3].L

\* A version lower than the local one is registered on chain.
Stale == chainV # -1 /\ chainV < wlocal

\* Watch calls Register in this step.
RegisterCall == wpc # "registering" /\ wpc' = "registering"

\* A Register call of Watch has put the local version on chain.
Refuted ==
    /\ chainV = wlocal
    /\ \E i \in DOMAIN whist : whist[i].registers = 1 /\ whist[i].dispatched

C16_UnconfirmedNeverSuccess ==
    \A c \in acalls :
        /\ c.err = "nil" => c.sent = Range(c.list) /\ c.conf = Range(c.list)
        /\ c.timed # {} => c.err = "TxTimedOut"

\* The chain IDs of the assets of a request's transaction and sub-states.
ChainsOf(req) == Range(req.tx) \cup UNION { Range(s) : s \in Range(req.subs) }

\* C17: ensureConcluded returns success only if every backend of the channel's
\* backend set returned on a Concluded event of the channel; when some backend
\* failed or its context ended, ensureConcluded returns an error.
C17_SuccessOnlyWhenAllConcluded ==
    areq.kind = "Withdraw" =>
        /\ aerr = "nil" =>
              \A b \in ChainsOf(areq) :
                  epc[b] = "nil" /\ eseen[b] = "Concluded" /\ onchain[b] = "Concluded"
        /\ (aerr # "running" /\ \E b \in ChainIDs : epc[b] \in EnsureErrors) =>
              aerr # "nil"

\* ensureConcluded succeeded over two backends, with a conclude transaction of
\* its own whose confirmation timed out.
W17_BothBackendsConcluded ==
    /\ areq.kind = "Withdraw"
    /\ aerr = "nil"
    /\ aset = ChainIDs
    /\ \E c \in acalls : c.timed # {}

C19_FundNilIffEveryFunderNil ==
    fret \notin {"none", "running"} =>
        IF \E i \in DOMAIN freq : ffunders[freq[i]] = "none"
        THEN fret = "could not find funder for asset" /\ fgo = <<>>
        ELSE /\ fret = "nil" =>
                  \A i \in DOMAIN freq :
                      \E k \in DOMAIN fgo :
                          fgo[k].f = ffunders[freq[i]] /\ fgo[k].res = "nil"
             /\ (\E k \in DOMAIN fgo : fgo[k].res = "error") => fret # "nil"

C22_EncodeDecodeRoundTrip ==
    /\ ekind = "bytes" =>
          IF ein.len <= uint16MaxValue
          THEN eenc = "nil" /\ eout = ein
          ELSE eenc # "nil"
    /\ (ekind = "address" /\ eenc = "nil") => eout = ein

\* C23: the state watcher releases both entries of a match: when both Await
\* calls of a matched pair have returned, either both returned nil or neither
\* did; a timeout never leaves one with nil and the other with the context's
\* error.
C23_MatchedPairSameOutcome ==
    \A pr \in swPairs :
        (\A i \in pr : swPc[i] = "returned")
            => \A i, j \in pr : (swRet[i] = "nil") <=> (swRet[j] = "nil")

\* C24: every entry of the state watcher takes part in at most one successful
\* match and the condition is evaluated at most once on each pair of entries:
\* a matched entry is no longer in the map, Await returns nil only to an entry
\* that was matched, and after Await has returned its entry is not in the map.
C24_AtMostOneMatchPerEntry ==
    /\ \A pr, qr \in swPairs : pr # qr => pr \cap qr = {}
    /\ \A pr \in Pairs : swEvals[pr] <= 1
    /\ \A pr \in swPairs : pr \cap swEntries = {}
    /\ \A i \in Waiters : swRet[i] = "nil" => \E pr \in swPairs : i \in pr
    /\ \A i \in Waiters : swPc[i] = "returned" => i \notin swEntries

\* Two entries were matched and a third handler awaits the same state.
W24_ThirdEntryAfterMatch ==
    /\ swPairs # {}
    /\ \A i \in Waiters : swPc[i] # "idle" /\ swState[i] = "s"
    /\ \E i \in Waiters : swPc[i] = "returned" /\ swRet[i] = "nil"
    /\ swEntries # {}

\* The hub's handler of parent c registers a proposal of the given kind in
\* this step.
Registers(c, kind) == ipc[c] = "idle" /\ ipc'[c] = "await" /\ proposals[c].kind = kind

\* C25: evaluating the match predicate of a state watcher has no side effect:
\* a step in which a handler registers its proposal, and with it evaluates
\* matchFundingProposal or matchSettlementProposal, leaves the hub's channel
\* registry with the persisted copy of V and its machine as they were.
C25_MatchPredicateSideEffectFree ==
    [][\A c \in AllChans, kind \in Kinds : Registers(c, kind) => copy' = copy]_vars

\* The parents c and e cover both sides of V: the hub holds a sub-allocation
\* of V in both and their index maps together send every participant of V to
\* the hub.
CoverBothSides(c, e) ==
    /\ c # e
    /\ HasSubAlloc(imach[c].cur, "V") /\ HasSubAlloc(imach[e].cur, "V")
    /\ \A j \in Parts :
          \E x \in {c, e} : SubAlloc(imach[x].cur, "V").indexMap[j] = IngridIdx

\* C26: two settlement proposals match only if their final virtual states are
\* equal and they arrived over the two parent channels of V, which cover both
\* sides of V.
C26_SettlementMatchCoversBothSides ==
    [][\A c, e \in AllChans :
          (Registers(c, "settle") /\ e \in entries["settle"] /\ match'[e] /\ match'[c])
              => /\ proposals[c].virtual = hprop[e].virtual
                 /\ CoverBothSides(c, e)]_vars

\* C27: the intermediary never accepts a funding proposal that lacks a valid
\* signature of some participant of V on the initial state: whenever the hub
\* accepts a funding proposal, the proposal carries, for every participant
\* index, a signature that verifies for that participant.
C27_AcceptedFundingFullySigned ==
    [][\A c \in AllChans :
          (<<"fund", c>> \in accepted' /\ <<"fund", c>> \notin accepted)
              => \A i \in Parts :
                    /\ i \in DOMAIN hprop[c].vsigs
                    /\ Verify(i, hprop[c].virtual, hprop[c].vsigs[i])]_vars

\* What the virtual participants that the index map of prop sends to parent
\* index p hold together in the initial state of V.
MappedTo(prop, p) ==
    (IF prop.indexMap[0] = p THEN prop.virtual.bals[0] ELSE 0)
        + (IF prop.indexMap[1] = p THEN prop.virtual.bals[1] ELSE 0)

\* C28: sufficient collateral: whenever a funding proposal passes the hub's
\* validation, every participant of the parent holds at least the sum of the
\* initial balances of the participants of V that the index map sends to it,
\* also when the map sends two participants of V to the same parent index.
C28_SufficientCollateral ==
    [][\A c \in AllChans :
          ( /\ Registers(c, "fund")
            /\ validateVirtualChannelFundingProposal(imach[c].cur, proposals[c]) = "nil" )
              => \A p \in Parts : imach[c].cur.bals[p] >= MappedTo(proposals[c], p)]_vars

\* C29: a backend subscription queues at most one event at any time.  When
\* processNext has handled a chain event, the queue holds the new event if the
\* queue was empty, or if the new event has a greater version than the queued
\* one, or the same version and a later timeout; otherwise it holds the event
\* that was queued, and the new one is dropped.
C29_AtMostOneQueuedNewerReplaces ==
    /\ [](Len(bnext) <= 1)
    /\ [][(bpc = "process" /\ bpc' = "select")
            => bnext' = << IF \/ bcur = NoChainEvent
                              \/ bcur.version < bnew.version
                              \/ bcur.version = bnew.version /\ bcur.timeout < bnew.timeout
                           THEN bnew ELSE bcur >>]_vars

\* An event was queued when one of the same version and a later timeout came,
\* which is queued now.
W29_SameVersionLaterTimeoutReplaced ==
    /\ bpc = "select"
    /\ blast.current # NoChainEvent
    /\ blast.current.version = blast.next.version
    /\ blast.current.timeout < blast.next.timeout
    /\ bnext = <<blast.next>>

\* C30: when Register has returned, with nil or with an error, it holds no
\* machine mutex, the mutexes it unlocked are the ones it had acquired, each
\* once, and the machines it had set to Registering before a failure have not
\* been set back.
C30_RegisterReleasesWhatItLocked ==
    gpc = "returned" =>
        /\ \A ch \in TreeChans : gmtx[ch] # "register"
        /\ { gunl[i] : i \in DOMAIN gunl } = gacq
        /\ Len(gunl) = Cardinality(gacq)
        /\ gret # "nil" => \A ch \in gset : gphase[ch] \in {"Registering", "Registered"}
        /\ gret = "nil" => \A ch \in TreeChans : gphase[ch] = "Registered"

\* Register failed at the mutex of a sub-channel that another task holds,
\* after it had locked the root, and has returned.
W30_LockTimeoutPartWay ==
    /\ gpc = "returned" /\ gret = "locking recursive"
    /\ gacq = {"root"}
    /\ gmtx["sub"] = "other"

\* The adjudicator's Register is called in this step.
AdjudicatorCalled ==
    gpc = "adjudicate" /\ gpc' # "adjudicate" /\ gret' # "gathering sub-channel states"

\* C31: Register called on any channel of the tree acts on the root: the
\* adjudicator's Register is called only while Register holds the machine
\* mutex of the root and of every sub-channel below it and all these machines
\* are in phase Registering, and it is given the states of all sub-channels;
\* a machine is set to Registered only after the adjudicator call succeeded.
C31_RegisterActsOnWholeTree ==
    [][/\ AdjudicatorCalled
          => /\ \A ch \in TreeChans : gmtx[ch] = "register" /\ gphase[ch] = "Registering"
             /\ gsubs' = TreeChans \ {"root"}
       /\ \A ch \in TreeChans :
             (gphase'[ch] = "Registered" /\ gphase[ch] # "Registered")
                => gpc = "registered" /\ gsubs = TreeChans \ {"root"}]_vars

\* Register was called on the innermost sub-channel and has returned nil.
W31_RegisteredFromLeaf ==
    /\ gcalled = "leaf" /\ gpc = "returned" /\ gret = "nil"
    /\ \A ch \in TreeChans : gphase[ch] = "Registered"

\* The conclude or concludeFinal calls recorded for backend b.
ConcludeCalls(b, recs) ==
    { c \in recs : c.txType \in {"Conclude", "ConcludeFinal"} /\ c.list = <<b>> }

\* C32: when the past events of a backend hold a Concluded event of the
\* channel at the time ensureConcludedBackend scans them, it returns nil for
\* that backend (or the error of the subscription it could not read) and goes
\* on neither to the wait of the secondary party nor to the conclude step; no
\* conclude or concludeFinal transaction is submitted on that backend.
C32_ConcludedInPastNoTransaction ==
    [][\A b \in ChainIDs :
          (epc[b] = "subscribe" /\ onchain[b] = "Concluded" /\ epc'[b] # "subscribe")
             => /\ epc'[b] \in {"nil", "subscribing", "isConcluded"}
                /\ ConcludeCalls(b, acalls') = {}]_vars

\* A primary request returned nil on a backend without any conclude call on
\* it: the Concluded event was among the past events.
W32_ReturnedFromPastEvents ==
    /\ areq.kind = "Withdraw" /\ ~areq.secondary
    /\ \E b \in aset :
          /\ epc[b] = "nil" /\ eseen[b] = "Concluded"
          /\ ConcludeCalls(b, acalls) = {}

\* C33: a conclude or concludeFinal transaction that reverted is not returned
\* as an error: ensureConcludedBackend goes on to wait, returns nil from the
\* wait only on a Concluded event of the channel, and returns an error from it
\* only when the context is cancelled or the subscription fails or closes.
C33_RevertedConcludeIsWaitedOut ==
    [][\A b \in ChainIDs :
          /\ (\E c \in ConcludeCalls(b, acalls') \ acalls :
                  c.err = "mining transaction: transaction failed")
                => epc'[b] = "wait"
          /\ (epc[b] = "wait" /\ epc'[b] # "wait")
                => \/ epc'[b] = "nil" /\ onchain[b] = "Concluded"
                   \/ epc'[b] \in {"context cancelled", "subscription error"}]_vars

\* The conclude transaction of a backend reverted and ensureConcludedBackend
\* has returned nil on the Concluded event of another party's transaction.
W33_RevertedThenConcluded ==
    \E b \in aset :
        /\ epc[b] = "nil" /\ eseen[b] = "Concluded"
        /\ \E c \in ConcludeCalls(b, acalls) :
               c.err = "mining transaction: transaction failed"

\* C34: for a secondary request with a final state the wait returns true as
\* soon as a Concluded event is read in the window and returns false only
\* after secondaryWaitBlocks + txFinalityDepth new block headers were received
\* without one, events of other phases not counting as blocks; for a request
\* that is not secondary or not final it returns false without waiting.
C34_SecondaryWaitsFullWindow ==
    /\ (npc = "returned" /\ nret = "false") =>
          IF nreq.final /\ nreq.secondary
          THEN nheaders = secondaryWaitBlocks + nreq.txFinalityDepth
          ELSE nheaders = 0 /\ ni = 0
    /\ (npc = "returned" /\ nret = "true") =>
          /\ nreq.final /\ nreq.secondary
          /\ nheaders < secondaryWaitBlocks + nreq.txFinalityDepth

\* The routines of Fund that called Fund on funder f.
FundCallsOn(f) == { k \in DOMAIN fgo : fgo[k].f = f }

\* C35: the multi-asset Fund calls Fund exactly once on each distinct funder
\* registered for the assets of the request: no funder is called more than
\* once, and when all routines have returned none was skipped.
C35_EachDistinctFunderOnce ==
    /\ \A f \in {"F1", "F2"} : Cardinality(FundCallsOn(f)) <= 1
    /\ (fgo # <<>> /\ \A k \in DOMAIN fgo : fgo[k].res # "running") =>
          \A i \in DOMAIN freq : Cardinality(FundCallsOn(ffunders[freq[i]])) = 1

\* Neither peer has a staged update, a running Update call, a running handler
\* or a responder kept for later, and no request or response is in flight.
Quiescent ==
    \A p \in Parts :
        /\ mach[p].staged = NoState
        /\ pc[p] = "idle" /\ hpc[p] = "idle"
        /\ responders[p] = {}
        /\ inbox[p] = <<>> /\ resp[p] = {}

\* C36: whenever the channel is quiescent both peers hold the same current
\* state with the same version, after any sequence of accepted, rejected and
\* timed-out updates.
C36_QuiescentPeersAgree ==
    Quiescent => mach[0].cur = mach[1].cur

\* The hub's balance summed over the current states of its two parents.
HubBalance(b1, b2) == b1[IngridIdx] + b2[IngridIdx]

CircularWait ==
    /\ tpc["register"] = "lockSub" /\ tmtx["parent"] = "register"
    /\ tpc["settle"] = "lockParent" /\ tmtx["child"] = "settle"

\* C38: Register on the tree and Settle on its sub-channel or virtual channel
\* never each hold a machine mutex the other is waiting for.
C38_NoCircularWait == ~CircularWait

\* C40: when SettleWithSubchannels returns an error the phase of the channel
\* is the one it had when the call locked the machine, and the phase becomes
\* Withdrawn only in the step in which Settle returns nil.
C40_FailedSettleKeepsPhase ==
    [][/\ (tpc["settle"] # "returned" /\ tpc'["settle"] = "returned"
           /\ tret'["settle"] # "nil")
          => tphase'[SettleChan(tkind)] = tbefore'
       /\ \A ch \in DOMAIN tphase :
             (tphase[ch] # "Withdrawn" /\ tphase'[ch] = "Withdrawn")
                => tret'["settle"] = "nil" /\ ch = SettleChan(tkind)]_vars

\* processNext is called with a Concluded event, the last event of the chain,
\* while the queue is empty or holds an event of the same version and timeout.
ConcludedArrivesLast ==
    /\ bpc = "process"
    /\ bnew.phase = "Concluded"
    /\ \/ bcur = NoChainEvent
       \/ bcur.version = bnew.version /\ bcur.timeout = bnew.timeout

\* C39: a Concluded event that arrives on a subscription is not lost: unless
\* the subscription closes, Next eventually returns a Concluded event, also
\* when an event of the same version and timeout is still queued and when the
\* subscription of another backend has closed.
C39_ConcludedEventuallyReturned ==
    ConcludedArrivesLast ~> (bgot \/ bpc = "closed")

====
